---- MODULE Spec2Model ----
(***************************************************************************)
(* A model of the maminals video pipeline (NullString1/maminals).          *)
(*                                                                         *)
(*   SpecSend   whatsapp_sender.send_video: file check, retry loop with    *)
(*              exponential backoff, upload / parse / send steps.          *)
(*   SpecMain   main.main: the pipeline driver.                            *)
(*   SpecCache  cache.SimpleCache: get / set / clear on JSON record files, *)
(*              called from concurrent threads.                            *)
(*   SpecTiming audio_generator.extract_word_timings_from_audio and the    *)
(*              duration-based estimators it falls back to.                *)
(*   SpecSidecar audio_generator.save_word_timings / load_word_timings and *)
(*              the renderer's loading of the timings sidecar.             *)
(*   SpecCaptions video_creator.create_subtitle_clips: caption grouping.   *)
(*   SpecSlots  video_creator.create_video_from_audio_and_images: the      *)
(*              image slideshow.                                           *)
(*   SpecDownload download_images: download_one in a thread pool.          *)
(*   SpecInfo   generate_animal_info and the image URL lookups over the    *)
(*              cache.                                                     *)
(*   SpecRuns   runs of generate_audio and the renderer's use of the       *)
(*              timings sidecar.                                           *)
(*   SpecNames  get_animal_name.                                           *)
(*                                                                         *)
(* Each specification moves only its own variables; the others keep their  *)
(* initial values.                                                         *)
(***************************************************************************)
EXTENDS Integers, Sequences, FiniteSets, TLC

VARIABLES
    \* ---- whatsapp_sender.send_video ----
    sv_pc,        \* position in send_video
    max_retries,  \* the max_retries argument
    attempt,      \* the loop variable of `for attempt in range(max_retries)`
    fileExists,   \* whether video_path exists on disk (environment)
    upload_resp,  \* body of the last successful upload response
    result,       \* what the caller observes: "none", "True", "False", "raised"
    log,          \* history of the steps send_video performed
    \* ---- main.main ----
    m_pc,         \* position in main()
    narration,    \* narration synthesis: "Pending", "Running", "Succeeded", "Failed"
    images,       \* image acquisition: "Pending", "Running", "Succeeded", "Failed"
    render,       \* video rendering: "Pending", "Running", "Succeeded", "Failed"
    audio_dur,    \* duration in seconds of the generated audio file (-1: none)
    image_urls,   \* number of URLs the image source returned (-1: none yet)
    image_paths,  \* number of images download_images returned (-1: none yet)
    video_dur,    \* duration in seconds of the rendered video (-1: none)
    delivered,    \* whether send_video was invoked
    checks,       \* the check_file_duration calls made so far, in order
    \* ---- cache.SimpleCache ----
    files,        \* the cache directory: path -> [exists, readable, text]
    th,           \* per calling thread: the call in progress or last completed
    nops,         \* number of calls started
    fclass,       \* history: how each file's content came about
    expect,       \* history: per key, the value a map would hold
    started,      \* history: per key, the values of the set calls begun
    lastFinished, \* history: per key, the value of the last set that completed its write
    \* ---- audio_generator / video_creator word timing ----
    te_pc,        \* position in the timing call
    te_text,      \* the text argument, a sequence of tokens
    te_duration,  \* the local `duration` / argument `audio_duration` (Unbound: not assigned)
    speech_boundaries, \* the boundary times found by the energy analysis
    word_timings, \* the transcript returned: (word, start, end) entries
    te_ret,       \* "none", "returned" or "raised", and by which function and tier
    \* ---- word timings sidecar ----
    sc_pc,        \* "start", then "saved" / "loaded" / "rendered" after each call
    sc_fs,        \* the files: path -> [exists, readable, text]
    sc_path,      \* the audio artifact path (output_path / audio_path)
    sc_class,     \* history: how the content of the sidecar file came about
    sc_saved,     \* history: the transcript of the last successful save
    sc_loaded,    \* what load_word_timings returned, or that it raised
    sc_render,    \* the word timings the renderer ended up with and their source
    \* ---- video_creator.create_subtitle_clips ----
    cs_pc,        \* "loop", "done" or "raised" ("idle" outside SpecCaptions)
    cs_timings,   \* the word_timings argument
    cs_i,         \* the loop index i (0-based)
    current_text, \* the words of the phrase being collected
    current_start,\* start time of the phrase being collected
    subtitle_clips, \* the clips created: [words, start, duration]
    \* ---- video_creator.create_video_from_audio_and_images, image slideshow ----
    vc_pc,        \* "start", "loop", "fill", "done" or "failed"
    vc_loads,     \* per image path, whether ImageClip can load and resize it
    vc_duration,  \* the video duration in seconds
    vc_i,         \* the loop index i (0-based)
    image_clips,  \* the clips created: [image, start, duration] (image 0: placeholder)
    \* ---- download_images ----
    dl_pc,        \* "gather" or "returned"
    dl_impl,      \* which copy runs: "image_handler" or "main"
    dl_urls,      \* the image_urls argument
    dl_fs,        \* the files of output_images/
    dl_futures,   \* per URL, the download_one call: [pc, result, outcome]
    dl_yielded,   \* the futures as_completed has yielded so far, in order
    output_paths, \* the list download_images builds
    \* ---- the cached lookups ----
    ic_cache,     \* per cache key, what its file holds
    ic_log,       \* the calls made so far: [fn, ret, source, set]
    \* ---- runs of generate_audio and the renderer ----
    ar_pc,        \* "ready", "extract" or "generated"
    ar_run,       \* the number of generate_audio calls so far
    ar_subject,   \* the animal name of the current run
    ar_audio,     \* per subject, the run that wrote its audio file
    ar_sidecar,   \* per subject, the run that wrote its timings sidecar
    ar_render,    \* what the last rendering used: [source, subject, sidecar, audio]
    \* ---- get_animal_name ----
    gn_pc,        \* "load", "remove", "choose" or "done"
    gn_impl,      \* which copy runs: "animal_data" or "main"
    gn_exists,    \* whether animal_names.json exists
    gn_names,     \* the list in animal_names.json
    gn_previous,  \* the stripped lines of previous_animal_names.txt
    animal_list,  \* the list the call works on
    gn_i,         \* how many used names the loop of animal_data.py has handled
    gn_depth,     \* how many times main.py's get_animal_name has called itself
    gn_ret        \* the outcome: [state, value]

sendVars == <<sv_pc, max_retries, attempt, fileExists, upload_resp, result, log>>

mainVars == <<m_pc, narration, images, render, audio_dur, image_urls, image_paths,
              video_dur, delivered, checks>>

cacheVars == <<files, th, nops, fclass, expect, started, lastFinished>>

timingVars == <<te_pc, te_text, te_duration, speech_boundaries, word_timings, te_ret>>

sidecarVars == <<sc_pc, sc_fs, sc_path, sc_class, sc_saved, sc_loaded, sc_render>>

captionVars == <<cs_pc, cs_timings, cs_i, current_text, current_start, subtitle_clips>>

slotVars == <<vc_pc, vc_loads, vc_duration, vc_i, image_clips>>

downloadVars == <<dl_pc, dl_impl, dl_urls, dl_fs, dl_futures, dl_yielded, output_paths>>

pipelineVars == <<sendVars, mainVars, cacheVars, timingVars, sidecarVars, captionVars, slotVars>>
infoVars == <<ic_cache, ic_log>>

runVars == <<ar_pc, ar_run, ar_subject, ar_audio, ar_sidecar, ar_render>>

nameVars == <<gn_pc, gn_impl, gn_exists, gn_names, gn_previous, animal_list, gn_i,
              gn_depth, gn_ret>>

restVars == <<downloadVars, infoVars, runVars, nameVars>>

vars == <<pipelineVars, restVars>>

(***************************************************************************)
(* Bounds                                                                  *)
(***************************************************************************)
MaxRetries == 4
MaxUrls == 2
MaxCacheOps == 3
BufSize == 14
MaxTokens == 3
MaxWords == 30
MaxImages == 10
MaxCalls == 3
MaxRuns == 3
MaxNames == 3
RecursionLimit == 3

(***************************************************************************)
(* Helpers                                                                 *)
(***************************************************************************)
RECURSIVE Pow2(_)
Pow2(n) == IF n <= 0 THEN 1 ELSE 2 * Pow2(n - 1)

SelectLog(kind) == SelectSeq(log, LAMBDA ev : ev.e = kind)

(***************************************************************************)
(* JSON text, as json.dump writes it and json.load reads it                *)
(*                                                                         *)
(* A text is a sequence of one-character strings.  A Python value is a     *)
(* tagged tuple: <<"null">> (None), <<"bool", "true">>, <<"num", digits>>, *)
(* <<"str", chars>>, <<"list", values>>, <<"dict", <<key chars, value>>    *)
(* pairs>>, and <<"set">> for a value json cannot serialize.               *)
(***************************************************************************)
PyNone == <<"null">>
PyTrue == <<"bool", "true">>
PyFalse == <<"bool", "false">>
PyNum(digits) == <<"num", digits>>
PyStr(chars) == <<"str", chars>>
PyList(items) == <<"list", items>>
PyDict(pairs) == <<"dict", pairs>>
PySet == <<"set">>

Q == "\""
Digits == {"0", "1", "2", "3", "4", "5", "6", "7", "8", "9"}
T_null == <<"n", "u", "l", "l">>
T_true == <<"t", "r", "u", "e">>
T_false == <<"f", "a", "l", "s", "e">>
K_value == <<"v", "a", "l", "u", "e">>

\* json.dump's encoder: the text written so far and whether a TypeError
\* ended the encoding (the chunks before the unserializable member have
\* already been written to the file object).
RECURSIVE Encode(_)
RECURSIVE EncodeItems(_, _, _)
RECURSIVE EncodePairs(_, _, _)

Encode(v) ==
    CASE v[1] = "null" -> [ok |-> TRUE, text |-> T_null]
      [] v[1] = "bool" -> [ok |-> TRUE, text |-> IF v[2] = "true" THEN T_true ELSE T_false]
      [] v[1] = "num" -> [ok |-> TRUE, text |-> v[2]]
      [] v[1] = "str" -> [ok |-> TRUE, text |-> <<Q>> \o v[2] \o <<Q>>]
      [] v[1] = "list" -> EncodeItems(v[2], 1, <<"[">>)
      [] v[1] = "dict" -> EncodePairs(v[2], 1, <<"{">>)
      [] OTHER -> [ok |-> FALSE, text |-> <<>>]

EncodeItems(items, k, acc) ==
    IF k > Len(items) THEN [ok |-> TRUE, text |-> Append(acc, "]")]
    ELSE LET sep == IF k = 1 THEN <<>> ELSE <<",", " ">>
             r == Encode(items[k])
         IN IF r.ok THEN EncodeItems(items, k + 1, acc \o sep \o r.text)
            ELSE [ok |-> FALSE, text |-> acc \o sep \o r.text]

EncodePairs(pairs, k, acc) ==
    IF k > Len(pairs) THEN [ok |-> TRUE, text |-> Append(acc, "}")]
    ELSE LET sep == IF k = 1 THEN <<>> ELSE <<",", " ">>
             key == <<Q>> \o pairs[k][1] \o <<Q, ":", " ">>
             r == Encode(pairs[k][2])
         IN IF r.ok THEN EncodePairs(pairs, k + 1, acc \o sep \o key \o r.text)
            ELSE [ok |-> FALSE, text |-> acc \o sep \o key \o r.text]

\* json.load's decoder: ok is FALSE for a JSONDecodeError.
ParseFail == [ok |-> FALSE, val |-> PyNone, next |-> 0]
Parsed(v, n) == [ok |-> TRUE, val |-> v, next |-> n]

RECURSIVE SkipWs(_, _)
SkipWs(t, i) == IF i <= Len(t) /\ t[i] \in {" ", "\n"} THEN SkipWs(t, i + 1) ELSE i

RECURSIVE ScanDigits(_, _)
ScanDigits(t, i) == IF i <= Len(t) /\ t[i] \in Digits THEN ScanDigits(t, i + 1) ELSE i

RECURSIVE ScanQuote(_, _)
ScanQuote(t, i) == IF i > Len(t) THEN 0 ELSE IF t[i] = Q THEN i ELSE ScanQuote(t, i + 1)

Literal(t, i, lit) ==
    /\ i + Len(lit) - 1 <= Len(t)
    /\ SubSeq(t, i, i + Len(lit) - 1) = lit

RECURSIVE ParseValue(_, _)
RECURSIVE ParseItems(_, _, _)
RECURSIVE ParsePairs(_, _, _)

ParseString(t, i) ==
    LET j == ScanQuote(t, i + 1) IN
    IF j = 0 THEN ParseFail ELSE Parsed(PyStr(SubSeq(t, i + 1, j - 1)), j + 1)

ParseNumber(t, i) ==
    LET j == ScanDigits(t, i) IN
    IF t[i] = "0" /\ j > i + 1 THEN Parsed(PyNum(<<"0">>), i + 1)
    ELSE Parsed(PyNum(SubSeq(t, i, j - 1)), j)

ParseValue(t, i) ==
    IF i > Len(t) THEN ParseFail
    ELSE CASE Literal(t, i, T_null) -> Parsed(PyNone, i + 4)
           [] Literal(t, i, T_true) -> Parsed(PyTrue, i + 4)
           [] Literal(t, i, T_false) -> Parsed(PyFalse, i + 5)
           [] t[i] \in Digits -> ParseNumber(t, i)
           [] t[i] = Q -> ParseString(t, i)
           [] t[i] = "[" ->
                LET j == SkipWs(t, i + 1) IN
                IF j <= Len(t) /\ t[j] = "]" THEN Parsed(PyList(<<>>), j + 1)
                ELSE ParseItems(t, j, <<>>)
           [] t[i] = "{" ->
                LET j == SkipWs(t, i + 1) IN
                IF j <= Len(t) /\ t[j] = "}" THEN Parsed(PyDict(<<>>), j + 1)
                ELSE ParsePairs(t, j, <<>>)
           [] OTHER -> ParseFail

\* at the start of an item; after it "," continues and "]" ends the list
ParseItems(t, i, acc) ==
    LET r == ParseValue(t, i) IN
    IF ~r.ok THEN ParseFail
    ELSE LET j == SkipWs(t, r.next) IN
         IF j > Len(t) THEN ParseFail
         ELSE IF t[j] = "]" THEN Parsed(PyList(Append(acc, r.val)), j + 1)
         ELSE IF t[j] = "," THEN ParseItems(t, SkipWs(t, j + 1), Append(acc, r.val))
         ELSE ParseFail

\* at the start of a member: "key" : value
ParsePairs(t, i, acc) ==
    IF i > Len(t) \/ t[i] # Q THEN ParseFail
    ELSE LET k == ParseString(t, i) IN
         IF ~k.ok THEN ParseFail
         ELSE LET c == SkipWs(t, k.next) IN
              IF c > Len(t) \/ t[c] # ":" THEN ParseFail
              ELSE LET r == ParseValue(t, SkipWs(t, c + 1)) IN
                   IF ~r.ok THEN ParseFail
                   ELSE LET j == SkipWs(t, r.next)
                            pairs == Append(acc, <<k.val[2], r.val>>)
                        IN IF j > Len(t) THEN ParseFail
                           ELSE IF t[j] = "}" THEN Parsed(PyDict(pairs), j + 1)
                           ELSE IF t[j] = "," THEN ParsePairs(t, SkipWs(t, j + 1), pairs)
                           ELSE ParseFail

\* json.load(f): one value, then nothing but white space ("Extra data").
Loads(t) ==
    LET r == ParseValue(t, SkipWs(t, 1)) IN
    IF r.ok /\ SkipWs(t, r.next) > Len(t) THEN r ELSE ParseFail

\* dict.get(key): the value of the last member with that key, else None.
RECURSIVE DictGet(_, _, _)
DictGet(pairs, key, k) ==
    IF k = 0 THEN PyNone
    ELSE IF pairs[k][1] = key THEN pairs[k][2]
    ELSE DictGet(pairs, key, k - 1)

(***************************************************************************)
(* whatsapp_sender.send_video                                              *)
(***************************************************************************)

\* The bodies the upload service can answer with.  kind is what
\* upload_resp.json() yields ("notjson": it raises); data is the "data"
\* member; url is the "url" member, written as the result of url.split("/")
\* (so "" is <<"">>); urlIsStr is FALSE for a "url" member that is null or a
\* number, which has no split method.
Body(kind, data, urlIsStr, url) ==
    [kind |-> kind, data |-> data, urlIsStr |-> urlIsStr, url |-> url]

UploadBodies ==
    { Body("notjson", "absent", TRUE, <<"">>),
      Body("list", "absent", TRUE, <<"">>),
      Body("dict", "absent", TRUE, <<"">>),
      Body("dict", "null", TRUE, <<"">>),
      Body("dict", "dict", TRUE, <<"">>),
      Body("dict", "dict", FALSE, <<"">>),
      Body("dict", "dict", TRUE, <<"tmpfiles.org", "v.mp4">>),
      Body("dict", "dict", TRUE, <<"https:", "", "tmpfiles.org">>),
      Body("dict", "dict", TRUE, <<"https:", "", "tmpfiles.org", "123">>),
      Body("dict", "dict", TRUE, <<"https:", "", "tmpfiles.org", "123", "v.mp4">>) }

NoBody == Body("none", "absent", TRUE, <<"">>)

\* upload_resp.json().get("data", {}).get("url", "").split("/"): raised when
\* any step raises, else the list of parts.
video_url_parts(body) ==
    IF body.kind # "dict"
    THEN [raised |-> TRUE, parts |-> <<>>]      \* json() raises / a list has no .get
    ELSE IF body.data = "null"
    THEN [raised |-> TRUE, parts |-> <<>>]      \* None has no .get
    ELSE IF body.data = "absent"
    THEN [raised |-> FALSE, parts |-> <<"">>]   \* {}.get("url", "").split("/")
    ELSE IF ~body.urlIsStr
    THEN [raised |-> TRUE, parts |-> <<>>]      \* no .split
    ELSE [raised |-> FALSE, parts |-> body.url]

\* Lines 44-63: "ok", "invalid" (fewer than 4 parts) or "raise".
ParseOutcome(body) ==
    LET r == video_url_parts(body) IN
    IF r.raised THEN "raise"
    ELSE IF Len(r.parts) < 4 THEN "invalid"
    ELSE "ok"

\* video_url_parts.insert(3, "dl")
video_url(body) ==
    LET parts == video_url_parts(body).parts IN
    SubSeq(parts, 1, 3) \o <<"dl">> \o SubSeq(parts, 4, Len(parts))

\* One entry of the history: step e of loop iteration i, whether it succeeded,
\* whether it failed because video_path does not exist, and for a sleep the
\* seconds slept.
Ev(kind, ok) == [e |-> kind, i |-> attempt, ok |-> ok, missing |-> FALSE, secs |-> 0]
MissingEv(kind) == [Ev(kind, FALSE) EXCEPT !.missing = TRUE]
\* time.sleep(2**attempt)
SleepEv == [Ev("sleep", TRUE) EXCEPT !.secs = Pow2(attempt)]

\* The failure handler shared by the three steps:
\* `if attempt < max_retries - 1: time.sleep(2**attempt); continue`, followed
\* in the upload and parse handlers by `return False` (lastPc = "done"); the
\* send handler has no return and falls out of the loop to line 83
\* (lastPc = "exhausted").
RetryOrGiveUp_SleepAfterLast(ev, lastPc) ==
    /\ log' = log \o <<ev, SleepEv>>
    /\ attempt' = attempt + 1
    /\ sv_pc' = "loop"
    /\ result' = result

RetryOrGiveUp(ev, lastPc) ==
    IF attempt < max_retries - 1
    THEN /\ log' = log \o <<ev, SleepEv>>
         /\ attempt' = attempt + 1
         /\ sv_pc' = "loop"
         /\ result' = result
    ELSE /\ log' = Append(log, ev)
         /\ attempt' = attempt
         /\ sv_pc' = lastPc
         /\ result' = IF lastPc = "done" THEN "False" ELSE result

\* Lines 21-23: Path(video_path).exists().  Path.exists() returns False for
\* ENOENT/ENOTDIR/EBADF/ELOOP and re-raises every other OSError (EACCES on a
\* parent directory, ENAMETOOLONG); the call is outside every try block.
FileCheck ==
    /\ sv_pc = "check"
    /\ \E statError \in BOOLEAN :
          IF statError
          THEN /\ sv_pc' = "done"
               /\ result' = "raised"
               /\ log' = Append(log, Ev("check", FALSE))
          ELSE IF fileExists
          THEN /\ sv_pc' = "loop"
               /\ result' = result
               /\ log' = Append(log, Ev("check", TRUE))
          ELSE /\ sv_pc' = "done"
               /\ result' = "False"
               /\ log' = Append(log, MissingEv("check"))
    /\ UNCHANGED <<max_retries, attempt, fileExists, upload_resp>>

\* Line 27: for attempt in range(max_retries); lines 83-84 when exhausted.
LoopHead ==
    /\ sv_pc = "loop"
    /\ IF attempt < max_retries
       THEN /\ sv_pc' = "upload"
            /\ result' = result
       ELSE /\ sv_pc' = "done"
            /\ result' = "False"
    /\ UNCHANGED <<max_retries, attempt, fileExists, upload_resp, log>>

\* Lines 28-42: open the file, post it, raise_for_status.
Upload ==
    /\ sv_pc = "upload"
    /\ \E outcome \in {"ok", "open_error", "post_error", "bad_status"},
          body \in UploadBodies :
          IF ~fileExists
          THEN \* open() raises FileNotFoundError, handled like any Exception
               /\ RetryOrGiveUp(MissingEv("upload"), "done")
               /\ upload_resp' = upload_resp
          ELSE IF outcome # "ok"
          THEN /\ RetryOrGiveUp(Ev("upload", FALSE), "done")
               /\ upload_resp' = upload_resp
          ELSE /\ log' = Append(log, Ev("upload", TRUE))
               /\ upload_resp' = body
               /\ sv_pc' = "parse"
               /\ UNCHANGED <<attempt, result>>
    /\ UNCHANGED <<max_retries, fileExists>>

\* Lines 44-63: parse the upload response.
Parse ==
    /\ sv_pc = "parse"
    /\ IF ParseOutcome(upload_resp) = "ok"
       THEN /\ log' = Append(log, Ev("parse", TRUE))
            /\ sv_pc' = "send"
            /\ UNCHANGED <<attempt, result>>
       ELSE RetryOrGiveUp(Ev("parse", FALSE), "done")
    /\ UNCHANGED <<max_retries, fileExists, upload_resp>>

\* Lines 66-81: post the message to the WhatsApp bridge.
Send ==
    /\ sv_pc = "send"
    /\ \E outcome \in {"ok", "post_error", "bad_status"} :
          IF outcome = "ok"
          THEN /\ log' = Append(log, Ev("send", TRUE))
               /\ sv_pc' = "done"
               /\ result' = "True"
               /\ attempt' = attempt
          ELSE RetryOrGiveUp(Ev("send", FALSE), "exhausted")
    /\ UNCHANGED <<max_retries, fileExists, upload_resp>>

\* Lines 83-84, reached when the last attempt's send failed.
Exhausted ==
    /\ sv_pc = "exhausted"
    /\ sv_pc' = "done"
    /\ result' = "False"
    /\ UNCHANGED <<max_retries, attempt, fileExists, upload_resp, log>>

\* Environment: the video file is removed or (re)created while the call runs.
FileChanges ==
    /\ sv_pc \notin {"done"}
    /\ fileExists' = ~fileExists
    /\ UNCHANGED <<sv_pc, max_retries, attempt, upload_resp, result, log>>

InitSendVideo ==
    /\ sv_pc = "check"
    /\ max_retries \in -1..MaxRetries
    /\ attempt = 0
    /\ fileExists \in BOOLEAN
    /\ upload_resp = NoBody
    /\ result = "none"
    /\ log = <<>>

SendIdle ==
    /\ sv_pc = "idle"
    /\ max_retries = 0
    /\ attempt = 0
    /\ fileExists = FALSE
    /\ upload_resp = NoBody
    /\ result = "none"
    /\ log = <<>>

(***************************************************************************)
(* cache.SimpleCache                                                       *)
(***************************************************************************)
Keys == {"k1", "k2"}
Threads == {"t1", "t2"}

\* _get_cache_path: cache_dir / (md5(key).hexdigest() + ".json"), one file
\* per key (the digest is taken to be injective on Keys).
_get_cache_path_Collide(key) == "md5_k1.json"

_get_cache_path(key) == IF key = "k1" THEN "md5_k1.json" ELSE "md5_k2.json"

Paths == {_get_cache_path(k) : k \in Keys}

\* json.dump({"value": value}, f)
Record(value) == PyDict(<< <<K_value, value>> >>)

File(exists, readable, text) == [exists |-> exists, readable |-> readable, text |-> text]
NoFile == File(FALSE, TRUE, <<>>)

Raised == <<"raised">>
Running == <<"running">>
NotSet == <<"notset">>
Unknown == <<"unknown">>

\* The values callers store.
Num1 == PyNum(<<"1">>)
Num11111 == PyNum(<<"1", "1", "1", "1", "1">>)
Num22222 == PyNum(<<"2", "2", "2", "2", "2">>)
UnserializableValues == { PySet, PyList(<<Num1, PySet>>) }
LongValues == { Num11111, Num22222 }

\* The try block of get (lines 27-31): the exception it ends with, if any,
\* and the value it returns otherwise.
GetBody(file) ==
    IF ~file.exists THEN [exc |-> "none", val |-> PyNone]          \* falls to line 34
    ELSE IF ~file.readable THEN [exc |-> "OSError", val |-> PyNone]
    ELSE LET r == Loads(file.text) IN
         IF ~r.ok THEN [exc |-> "JSONDecodeError", val |-> PyNone]
         ELSE IF r.val[1] # "dict" THEN [exc |-> "AttributeError", val |-> PyNone]
         ELSE [exc |-> "none", val |-> DictGet(r.val[2], K_value, Len(r.val[2]))]

\* Variants of the handler that catch one exception class only and let the
\* others reach the caller.
Catch_OnlyDecodeError(outcome) ==
    IF outcome.exc \in {"none", "JSONDecodeError"} THEN outcome.val ELSE Raised

Catch_OnlyOSError(outcome) ==
    IF outcome.exc \in {"none", "OSError"} THEN outcome.val ELSE Raised

\* `except Exception` (lines 32-33 and 43-44): logged, then None.
Catch(outcome) == IF outcome.exc = "none" THEN outcome.val ELSE PyNone

SetCatch(outcome) == Catch(outcome)

\* What get(key) would return now.
GetNow(key) == Catch(GetBody(files[_get_cache_path(key)]))

\* Writing `piece` at offset pos of a file holding `text`; a write past the
\* end of the file (truncated by another writer meanwhile) leaves a hole of
\* NUL bytes.
Overlay(text, pos, piece) ==
    LET n == IF Len(text) > pos + Len(piece) THEN Len(text) ELSE pos + Len(piece) IN
    [k \in 1..n |-> IF k > pos /\ k <= pos + Len(piece) THEN piece[k - pos]
                    ELSE IF k <= Len(text) THEN text[k]
                    ELSE "NUL"]

Call(pc, op, key, val, text, pos, ret, cls, before, failed) ==
    [pc |-> pc, op |-> op, key |-> key, val |-> val, text |-> text, pos |-> pos,
     ret |-> ret, cls |-> cls, before |-> before, failed |-> failed]

NoSnapshot == [k \in Keys |-> PyNone]
NoCall == Call("idle", "none", "k1", PyNone, <<>>, 0, PyNone, "none", NoSnapshot, FALSE)

CanStart(t) == th[t].pc = "idle" /\ nops < MaxCacheOps

\* get, lines 25-27: the path is computed and cache_path.exists() is asked.
GetExists(t, key) ==
    /\ CanStart(t)
    /\ nops' = nops + 1
    /\ LET path == _get_cache_path(key) IN
       th' = [th EXCEPT ![t] =
                IF files[path].exists
                THEN Call("get_read", "get", key, PyNone, <<>>, 0, Running, "none",
                          NoSnapshot, FALSE)
                ELSE Call("idle", "get", key, PyNone, <<>>, 0,
                          Catch(GetBody(files[path])), fclass[path], NoSnapshot, FALSE)]
    /\ UNCHANGED <<files, fclass, expect, started, lastFinished>>

\* get, lines 28-34: open, json.load, data.get("value"), under
\* `except Exception`.
GetRead(t) ==
    /\ th[t].pc = "get_read"
    /\ LET path == _get_cache_path(th[t].key)
           file == files[path]
           \* the file may have gone since exists(): open raises
           outcome == IF file.exists THEN GetBody(file)
                      ELSE [exc |-> "OSError", val |-> PyNone]
       IN th' = [th EXCEPT ![t].pc = "idle", ![t].ret = Catch(outcome),
                           ![t].cls = fclass[path]]
    /\ UNCHANGED <<files, nops, fclass, expect, started, lastFinished>>

\* set, lines 38-40: open(cache_path, "w") creates or truncates the file, or
\* raises (the handler logs it).  openOutcomes: whether the open can fail.
SetOpen(t, key, value, openOutcomes) ==
    /\ CanStart(t)
    /\ nops' = nops + 1
    /\ LET path == _get_cache_path(key)
           before == [k \in Keys |-> GetNow(k)]
           enc == Encode(Record(value))
       IN \E openFails \in openOutcomes :
             IF openFails \/ ~files[path].readable
             THEN /\ th' = [th EXCEPT ![t] =
                             Call("idle", "set", key, value, <<>>, 0,
                                  SetCatch([exc |-> "OSError", val |-> PyNone]),
                                  "none", before, TRUE)]
                  /\ UNCHANGED <<files, fclass, expect, started>>
             ELSE /\ th' = [th EXCEPT ![t] =
                             Call("set_write", "set", key, value, enc.text, 0,
                                  Running, "none", before, ~enc.ok)]
                  /\ files' = [files EXCEPT ![path] = File(TRUE, TRUE, <<>>)]
                  /\ fclass' = [fclass EXCEPT ![path] = "written"]
                  /\ expect' = [expect EXCEPT ![key] = Unknown]
                  /\ started' = [started EXCEPT ![key] = @ \cup {value}]
    /\ UNCHANGED lastFinished

\* set, lines 41-44: json.dump writes through the file object's buffer,
\* which reaches the file BufSize characters at a time and at close; a
\* TypeError from the encoder or an OSError from the write ends the call in
\* the handler, after the `with` block has closed the file.  writeOutcomes:
\* whether a write can fail.
SetWrite(t, writeOutcomes) ==
    /\ th[t].pc = "set_write"
    /\ LET c == th[t]
           path == _get_cache_path(c.key)
           rest == Len(c.text) - c.pos
           n == IF rest > BufSize THEN BufSize ELSE rest
           piece == SubSeq(c.text, c.pos + 1, c.pos + n)
           last == c.pos + n = Len(c.text)
       IN \E ioError \in writeOutcomes :
             IF ioError
             THEN /\ th' = [th EXCEPT ![t].pc = "idle", ![t].failed = TRUE,
                                 ![t].text = <<>>, ![t].pos = 0,
                                 ![t].ret = SetCatch([exc |-> "OSError", val |-> PyNone])]
                  /\ fclass' = [fclass EXCEPT ![path] = "truncated"]
                  /\ UNCHANGED <<files, expect, lastFinished>>
             ELSE /\ files' = [files EXCEPT ![path].text = Overlay(@, c.pos, piece)]
                  /\ IF ~last
                     THEN /\ th' = [th EXCEPT ![t].pos = c.pos + n]
                          /\ UNCHANGED <<fclass, expect, lastFinished>>
                     ELSE IF c.failed
                     THEN /\ th' = [th EXCEPT ![t].pc = "idle",
                                         ![t].text = <<>>, ![t].pos = 0,
                                         ![t].ret = SetCatch([exc |-> "TypeError",
                                                              val |-> PyNone])]
                          /\ fclass' = [fclass EXCEPT ![path] = "truncated"]
                          /\ UNCHANGED <<expect, lastFinished>>
                     ELSE /\ th' = [th EXCEPT ![t].pc = "idle",
                                         ![t].text = <<>>, ![t].pos = 0,
                                         ![t].ret = PyNone]
                          /\ fclass' = fclass
                          /\ expect' = [expect EXCEPT ![c.key] = c.val]
                          /\ lastFinished' = [lastFinished EXCEPT ![c.key] = c.val]
    /\ UNCHANGED <<nops, started>>

\* clear, lines 48-53: every *.json file is unlinked; an exception part-way
\* is logged and leaves the remaining files.
Clear(t) ==
    /\ CanStart(t)
    /\ nops' = nops + 1
    /\ LET existing == {p \in Paths : files[p].exists} IN
       \E removed \in SUBSET existing :
          /\ files' = [p \in Paths |-> IF p \in removed THEN NoFile ELSE files[p]]
          /\ fclass' = [p \in Paths |-> IF p \in removed THEN "missing" ELSE fclass[p]]
          /\ expect' = [k \in Keys |->
                          IF _get_cache_path(k) \in removed \/ ~files[_get_cache_path(k)].exists
                          THEN NotSet ELSE expect[k]]
          /\ th' = [th EXCEPT ![t] =
                      Call("idle", "clear", "k1", PyNone, <<>>, 0, PyNone, "none",
                           NoSnapshot, removed # existing)]
    /\ UNCHANGED <<started, lastFinished>>

\* The states a cache file can be found in when the process starts.
InitialFiles ==
    { [class |-> "missing", file |-> NoFile, holds |-> NotSet],
      [class |-> "unreadable", holds |-> Unknown,
       file |-> File(TRUE, FALSE, Encode(Record(Num1)).text)],
      [class |-> "truncated", holds |-> Unknown, file |-> File(TRUE, TRUE, <<>>)],
      [class |-> "truncated", holds |-> Unknown,
       file |-> File(TRUE, TRUE, SubSeq(Encode(Record(Num1)).text, 1, 11))],
      [class |-> "notjson", holds |-> Unknown,
       file |-> File(TRUE, TRUE, <<"v", "a", "l", "u", "e", "=", "1">>)],
      [class |-> "notjson", holds |-> Unknown,
       file |-> File(TRUE, TRUE, Encode(Record(Num1)).text \o <<"1", "}">>)],
      [class |-> "nonobject", holds |-> Unknown,
       file |-> File(TRUE, TRUE, Encode(PyList(<<Num1>>)).text)],
      [class |-> "nonobject", holds |-> Unknown,
       file |-> File(TRUE, TRUE, Encode(PyStr(K_value)).text)],
      [class |-> "nonobject", holds |-> Unknown,
       file |-> File(TRUE, TRUE, Encode(PyNone).text)],
      [class |-> "novalue", holds |-> Unknown,
       file |-> File(TRUE, TRUE, Encode(PyDict(<< <<<<"v">>, Num1>> >>)).text)],
      [class |-> "record", holds |-> PyStr(<<"a", "b">>),
       file |-> File(TRUE, TRUE, Encode(Record(PyStr(<<"a", "b">>))).text)] }

InitCacheWith(initial) ==
    /\ files = [p \in Paths |-> initial[p].file]
    /\ fclass = [p \in Paths |-> initial[p].class]
    /\ expect = [k \in Keys |-> initial[_get_cache_path(k)].holds]
    /\ th = [t \in Threads |-> NoCall]
    /\ nops = 0
    /\ started = [k \in Keys |-> {}]
    /\ lastFinished = [k \in Keys |-> NotSet]

CacheIdle == InitCacheWith([p \in Paths |-> CHOOSE i \in InitialFiles : i.class = "missing"])

(***************************************************************************)
(* main.main: the pipeline driver                                          *)
(***************************************************************************)

\* The threshold main() passes to check_file_duration (30.0 seconds).
MinDuration == 30
\* Durations an artifact can come out with, around the threshold.
Durations == {12, 29, 30, 45}

\* Variant of check_file_duration that accepts every file, whatever ffprobe
\* reports.
check_file_duration_NoThreshold(probe, duration, min_duration) == TRUE

\* Variant of check_file_duration that compares the duration even when
\* ffprobe failed.
check_file_duration_IgnoreProbe(probe, duration, min_duration) == duration >= min_duration

\* check_file_duration(file_path, 30.0): ffprobe's answer is parsed and
\* compared; a CalledProcessError, KeyError, ValueError or TypeError is
\* caught and gives False.
check_file_duration(probe, duration, min_duration) ==
    IF probe = "ok" THEN duration >= min_duration ELSE FALSE

\* sys.exit(1): SystemExit is not an Exception, so `except Exception` lets it
\* through and the process ends with status 1.
Exit1 == m_pc' = "exit1"
\* An exception reaches `except Exception` at the end of main(): it is logged
\* and main() returns.
Caught == m_pc' = "error"

InitPipeline ==
    /\ m_pc = "name"
    /\ narration = "Pending"
    /\ images = "Pending"
    /\ render = "Pending"
    /\ audio_dur = -1
    /\ image_urls = -1
    /\ image_paths = -1
    /\ video_dur = -1
    /\ delivered = FALSE
    /\ checks = <<>>

MainIdle ==
    /\ m_pc = "idle"
    /\ narration = "Pending"
    /\ images = "Pending"
    /\ render = "Pending"
    /\ audio_dur = -1
    /\ image_urls = -1
    /\ image_paths = -1
    /\ video_dur = -1
    /\ delivered = FALSE
    /\ checks = <<>>

\* Lines 577-586: the subject comes from the command line or from
\* get_animal_name(), which returns a name or an "Error:" string, or raises.
GetName ==
    /\ m_pc = "name"
    /\ \E outcome \in {"arg", "generated", "error_string", "raise"} :
          CASE outcome = "error_string" -> Exit1
            [] outcome = "raise" -> Caught
            [] OTHER -> m_pc' = "info"
    /\ UNCHANGED <<narration, images, render, audio_dur, image_urls, image_paths,
                   video_dur, delivered, checks>>

\* Lines 588-592: generate_animal_info returns text or an "Error:" string, or
\* raises (no API key, request error, unexpected payload).
GetInfo ==
    /\ m_pc = "info"
    /\ \E outcome \in {"text", "error_string", "raise"} :
          CASE outcome = "error_string" -> Exit1
            [] outcome = "raise" -> Caught
            [] OTHER -> m_pc' = "audio"
    /\ UNCHANGED <<narration, images, render, audio_dur, image_urls, image_paths,
                   video_dur, delivered, checks>>

\* Line 594: generate_audio is called; main() blocks in it.
StartAudio ==
    /\ m_pc = "audio"
    /\ m_pc' = "audio_running"
    /\ narration' = "Running"
    /\ UNCHANGED <<images, render, audio_dur, image_urls, image_paths, video_dur,
                   delivered, checks>>

\* Lines 594-597: generate_audio returns the audio path or raises.
FinishAudio ==
    /\ m_pc = "audio_running"
    /\ \E raised \in BOOLEAN, d \in Durations :
          IF raised
          THEN /\ Caught
               /\ narration' = "Failed"
               /\ audio_dur' = audio_dur
          ELSE /\ m_pc' = "audio_check"
               /\ narration' = "Succeeded"
               /\ audio_dur' = d
    /\ UNCHANGED <<images, render, image_urls, image_paths, video_dur, delivered,
                   checks>>

\* Lines 599-604: the audio must last at least 30 seconds.
CheckAudio ==
    /\ m_pc = "audio_check"
    /\ \E probe \in {"ok", "error", "raise"} :
          /\ checks' = Append(checks, [file |-> "audio", probe |-> probe])
          /\ IF probe = "raise" THEN Caught
             ELSE IF ~check_file_duration(probe, audio_dur, MinDuration) THEN Exit1
             ELSE m_pc' = "wikimedia"
    /\ UNCHANGED <<narration, images, render, audio_dur, image_urls, image_paths,
                   video_dur, delivered>>

\* Lines 606-611: get_animal_photo_urls_wikimedia returns a non-empty list
\* or an error string (it catches its own exceptions).
UrlsWikimedia ==
    /\ m_pc = "wikimedia"
    /\ images' = "Running"
    /\ \E n \in 0..MaxUrls :
          IF n = 0
          THEN /\ m_pc' = "unsplash"
               /\ image_urls' = image_urls
          ELSE /\ m_pc' = "download"
               /\ image_urls' = n
    /\ UNCHANGED <<narration, render, audio_dur, image_paths, video_dur, delivered,
                   checks>>

\* Lines 612-618: get_animal_photo_urls_unsplash returns a list (possibly
\* empty after its filter), or an error string, or raises.
UrlsUnsplash ==
    /\ m_pc = "unsplash"
    /\ \E outcome \in {"list", "error_string", "raise"}, n \in 0..MaxUrls :
          CASE outcome = "error_string" ->
                 Exit1 /\ images' = "Failed" /\ image_urls' = image_urls
            [] outcome = "raise" ->
                 Caught /\ images' = "Failed" /\ image_urls' = image_urls
            [] OTHER ->
                 m_pc' = "download" /\ images' = images /\ image_urls' = n
    /\ UNCHANGED <<narration, render, audio_dur, image_paths, video_dur, delivered,
                   checks>>

\* Lines 620-624: download_images returns the paths of the images it could
\* fetch; none at all ends the run.
DownloadImages_KeepGoing(n) ==
    /\ image_paths' = n
    /\ images' = IF n = 0 THEN "Failed" ELSE "Succeeded"
    /\ m_pc' = "render"

DownloadImages(n) ==
    /\ image_paths' = n
    /\ images' = IF n = 0 THEN "Failed" ELSE "Succeeded"
    /\ IF n = 0 THEN Exit1 ELSE m_pc' = "render"

Download ==
    /\ m_pc = "download"
    /\ \E n \in 0..image_urls : DownloadImages(n)
    /\ UNCHANGED <<narration, render, audio_dur, image_urls, video_dur, delivered,
                   checks>>

\* Line 626: create_video_from_audio_and_images is called.
StartRender ==
    /\ m_pc = "render"
    /\ m_pc' = "rendering"
    /\ render' = "Running"
    /\ UNCHANGED <<narration, images, audio_dur, image_urls, image_paths, video_dur,
                   delivered, checks>>

\* Lines 626-632: it returns the video path, or "" when ffmpeg failed, or
\* raises.
FinishRender ==
    /\ m_pc = "rendering"
    /\ \E outcome \in {"path", "empty", "raise"}, d \in Durations :
          CASE outcome = "empty" ->
                 Exit1 /\ render' = "Failed" /\ video_dur' = video_dur
            [] outcome = "raise" ->
                 Caught /\ render' = "Failed" /\ video_dur' = video_dur
            [] OTHER ->
                 m_pc' = "video_check" /\ render' = "Succeeded" /\ video_dur' = d
    /\ UNCHANGED <<narration, images, audio_dur, image_urls, image_paths, delivered,
                   checks>>

\* Lines 634-639: the video must last at least 30 seconds.
CheckVideo ==
    /\ m_pc = "video_check"
    /\ \E probe \in {"ok", "error", "raise"} :
          /\ checks' = Append(checks, [file |-> "video", probe |-> probe])
          /\ IF probe = "raise" THEN Caught
             ELSE IF ~check_file_duration(probe, video_dur, MinDuration) THEN Exit1
             ELSE m_pc' = "deliver"
    /\ UNCHANGED <<narration, images, render, audio_dur, image_urls, image_paths,
                   video_dur, delivered>>

\* Lines 641-647: send_video is called when WHATSAPP_CHAT_ID is set; its
\* outcome is not looked at.
Deliver ==
    /\ m_pc = "deliver"
    /\ \E chat_id \in BOOLEAN : delivered' = chat_id
    /\ m_pc' = "cleanup"
    /\ UNCHANGED <<narration, images, render, audio_dur, image_urls, image_paths,
                   video_dur, checks>>

\* Lines 649-654: the audio file is removed; errors are logged.
Cleanup ==
    /\ m_pc = "cleanup"
    /\ m_pc' = "finished"
    /\ UNCHANGED <<narration, images, render, audio_dur, image_urls, image_paths,
                   video_dur, delivered, checks>>

(***************************************************************************)
(* Word timing: audio_generator.extract_word_timings_from_audio,           *)
(* audio_generator.estimate_word_timings_simple and                        *)
(* video_creator.estimate_word_timings                                     *)
(*                                                                         *)
(* Times are exact rationals <<numerator, denominator>> in lowest terms    *)
(* with a positive denominator (the code computes them in floating point). *)
(* A text is a sequence of tokens separated by white space; a token is a   *)
(* run of len characters whose last character is a word character ("w")   *)
(* or a punctuation mark: [last |-> ",", len |-> 9] stands for "elephant," *)
(* and [last |-> ".", len |-> 1] for a lone ".".                           *)
(***************************************************************************)
Abs(x) == IF x < 0 THEN -x ELSE x

RECURSIVE GCD(_, _)
GCD(a, b) == IF b = 0 THEN a ELSE GCD(b, a % b)

Rat(n, d) ==
    LET s == IF d < 0 THEN -1 ELSE 1
        g == GCD(Abs(n), Abs(d))
    IN <<(s * n) \div g, (s * d) \div g>>

Zero == Rat(0, 1)
One == Rat(1, 1)
RAdd(a, b) == Rat(a[1] * b[2] + b[1] * a[2], a[2] * b[2])
RSub(a, b) == Rat(a[1] * b[2] - b[1] * a[2], a[2] * b[2])
RMul(a, b) == Rat(a[1] * b[1], a[2] * b[2])
RDiv(a, b) == Rat(a[1] * b[2], a[2] * b[1])
RLe(a, b) == a[1] * b[2] <= b[1] * a[2]
RLt(a, b) == a[1] * b[2] < b[1] * a[2]
RMax(a, b) == IF RLe(a, b) THEN b ELSE a

\* A local variable that has not been assigned.
Unbound == <<0, 0>>

Token(last, len) == [last |-> last, len |-> len]
Tokens ==
    {Token("w", 1), Token("w", 7), Token("w", 8), Token("w", 20),
     Token(".", 1), Token(".", 8), Token(",", 9)}
Texts == UNION {[1..n -> Tokens] : n \in 0..MaxTokens}

\* re.findall(r'\b\w+\b', text): the word characters of each token, without
\* the punctuation mark that ends it; a lone punctuation mark gives no word.
RECURSIVE findall(_)
findall(t) ==
    IF t = <<>> THEN <<>>
    ELSE LET tok == Head(t)
             word == IF tok.last = "w" THEN <<tok>>
                     ELSE IF tok.len > 1 THEN <<Token("w", tok.len - 1)>>
                     ELSE <<>>
         IN word \o findall(Tail(t))

\* word.endswith(marks)
endswith(word, marks) == word.last \in marks

Timing(word, start, end) == [word |-> word, start |-> start, end |-> end]

words_per_minute == 160

\* The loop of lines 142-158 of audio_generator.py (45-61 of
\* video_creator.py), from word k on.
RECURSIVE EstimateLoop(_, _, _, _, _)
EstimateLoop(words, k, current_time, time_scale, acc) ==
    IF k > Len(words) THEN acc
    ELSE LET word == words[k]
             base_duration == Rat(4, 10)
             length_factor == RMax(Rat(1, 10), Rat(word.len, 8))
             plain == RMul(RMul(base_duration, length_factor), time_scale)
             word_duration ==
                 IF endswith(word, {".", "!", "?"})
                 THEN RAdd(plain, RMul(Rat(3, 10), time_scale))
                 ELSE IF endswith(word, {","})
                 THEN RAdd(plain, RMul(Rat(2, 10), time_scale))
                 ELSE plain
             start_time == current_time
             end_time == RAdd(current_time, word_duration)
         IN EstimateLoop(words, k + 1, end_time, time_scale,
                         Append(acc, Timing(word, start_time, end_time)))

\* audio_generator.estimate_word_timings_simple(text, audio_duration)
estimate_word_timings_simple(t, audio_duration) ==
    LET words == findall(t) IN
    IF words = <<>> THEN <<>>
    ELSE LET words_per_second == Rat(words_per_minute, 60)
             estimated_duration == RDiv(Rat(Len(words), 1), words_per_second)
             time_scale == IF RLt(Zero, estimated_duration)
                           THEN RDiv(audio_duration, estimated_duration)
                           ELSE One
         IN EstimateLoop(words, 1, Zero, time_scale, <<>>)

\* video_creator.estimate_word_timings(text, audio_duration): the same
\* computation on text.lower() (tokens carry no letter case).
estimate_word_timings(t, audio_duration) ==
    LET words == findall(t) IN
    IF words = <<>> THEN <<>>
    ELSE LET words_per_second == Rat(words_per_minute, 60)
             estimated_duration == RDiv(Rat(Len(words), 1), words_per_second)
             time_scale == IF RLt(Zero, estimated_duration)
                           THEN RDiv(audio_duration, estimated_duration)
                           ELSE One
         IN EstimateLoop(words, 1, Zero, time_scale, <<>>)

\* Durations the estimators are called with directly.
Durations_te == {Rat(-3, 1), Zero, Rat(5, 2), Rat(10, 1)}
\* Lengths in seconds of the audio file librosa loads (len(audio) / sr).
AudioLens == {0, 2, 3}

\* Lines 66-77: the times at which the RMS energy crosses the threshold,
\* alternately entering and leaving speech, closed with the last frame time
\* when the audio ends in speech; frame times are 0..d here.
BoundarySeqs(d) ==
    {b \in UNION {[1..n -> 0..d] : n \in {0, 2, 4}} :
        /\ \A k \in 1..(Len(b) - 2) : b[k] < b[k + 1]
        /\ Len(b) >= 2 =>
              \/ b[Len(b) - 1] < b[Len(b)]
              \/ b[Len(b) - 1] = d /\ b[Len(b)] = d}

\* Lines 81-83
speech_segments(b) == [k \in 1..(Len(b) \div 2) |-> <<b[2 * k - 1], b[2 * k]>>]

\* Line 86
RECURSIVE total_speech_time(_)
total_speech_time(segs) ==
    IF segs = <<>> THEN 0
    ELSE (Head(segs)[2] - Head(segs)[1]) + total_speech_time(Tail(segs))

\* Lines 92-96, from word k on.
RECURSIVE DistributeLoop(_, _, _, _, _)
DistributeLoop(words, k, current_time, time_per_word, acc) ==
    IF k > Len(words) THEN acc
    ELSE LET word == words[k]
             word_duration ==
                 RMul(time_per_word,
                      RAdd(Rat(8, 10), RDiv(RMul(Rat(4, 10), Rat(word.len, 1)), Rat(8, 1))))
         IN DistributeLoop(words, k + 1, RAdd(current_time, word_duration), time_per_word,
                           Append(acc, Timing(word, current_time,
                                              RAdd(current_time, word_duration))))

Ret(state, fn, tier) == [state |-> state, fn |-> fn, tier |-> tier]
NoRet == Ret("none", "none", "none")

\* `return estimate_word_timings_simple(text, duration)` at lines 49, 99,
\* 102, 108 and 111: reading `duration` before line 30 has assigned it
\* raises UnboundLocalError.
ReturnSimple ==
    /\ te_pc' = "done"
    /\ IF te_duration = Unbound
       THEN /\ te_ret' = Ret("raised", "extract", "none")
            /\ word_timings' = <<>>
       ELSE /\ te_ret' = Ret("returned", "extract", "duration")
            /\ word_timings' = estimate_word_timings_simple(te_text, te_duration)

\* A direct call of estimate_word_timings_simple(text, audio_duration).
CallSimple ==
    /\ te_pc = "start"
    /\ \E d \in Durations_te :
          /\ te_duration' = d
          /\ word_timings' = estimate_word_timings_simple(te_text, d)
    /\ te_pc' = "done"
    /\ te_ret' = Ret("returned", "simple", "duration")
    /\ UNCHANGED <<te_text, speech_boundaries>>

\* A direct call of video_creator.estimate_word_timings(text, audio_duration).
CallEstimate ==
    /\ te_pc = "start"
    /\ \E d \in Durations_te :
          /\ te_duration' = d
          /\ word_timings' = estimate_word_timings(te_text, d)
    /\ te_pc' = "done"
    /\ te_ret' = Ret("returned", "estimate", "duration")
    /\ UNCHANGED <<te_text, speech_boundaries>>

\* Lines 21-26: the imports; an ImportError goes to the handler of line 106.
ExtractImport ==
    /\ te_pc = "start"
    /\ \E importError \in BOOLEAN :
          IF importError THEN ReturnSimple
          ELSE te_pc' = "load" /\ UNCHANGED <<word_timings, te_ret>>
    /\ UNCHANGED <<te_text, te_duration, speech_boundaries>>

\* Lines 29-30: librosa.load and duration = len(audio) / sr; a failure to
\* load goes to the handler of line 109.
ExtractLoad ==
    /\ te_pc = "load"
    /\ \/ ReturnSimple /\ UNCHANGED te_duration
       \/ /\ \E d \in AudioLens : te_duration' = Rat(d, 1)
          /\ te_pc' = "words"
          /\ UNCHANGED <<word_timings, te_ret>>
    /\ UNCHANGED <<te_text, speech_boundaries>>

\* Lines 33-35
ExtractWords ==
    /\ te_pc = "words"
    /\ IF findall(te_text) = <<>>
       THEN /\ te_pc' = "done"
            /\ word_timings' = <<>>
            /\ te_ret' = Ret("returned", "extract", "nowords")
       ELSE te_pc' = "phonemize" /\ UNCHANGED <<word_timings, te_ret>>
    /\ UNCHANGED <<te_text, te_duration, speech_boundaries>>

\* Lines 38-49
ExtractPhonemize ==
    /\ te_pc = "phonemize"
    /\ \E phonemizerError \in BOOLEAN :
          IF phonemizerError THEN ReturnSimple
          ELSE te_pc' = "energy" /\ UNCHANGED <<word_timings, te_ret>>
    /\ UNCHANGED <<te_text, te_duration, speech_boundaries>>

\* Lines 58-77: the energy analysis; an error in it goes to the handler of
\* line 109.
ExtractEnergy ==
    /\ te_pc = "energy"
    /\ \/ ReturnSimple /\ UNCHANGED speech_boundaries
       \/ /\ \E b \in BoundarySeqs(te_duration[1]) : speech_boundaries' = b
          /\ te_pc' = "distribute"
          /\ UNCHANGED <<word_timings, te_ret>>
    /\ UNCHANGED <<te_text, te_duration>>

\* Lines 80-104
ExtractDistribute ==
    /\ te_pc = "distribute"
    /\ IF Len(speech_boundaries) >= 2
       THEN LET segs == speech_segments(speech_boundaries)
                words == findall(te_text)
            IN IF total_speech_time(segs) > 0
               THEN /\ word_timings' =
                          DistributeLoop(words, 1, Rat(segs[1][1], 1),
                                         Rat(total_speech_time(segs), Len(words)), <<>>)
                    /\ te_ret' = Ret("returned", "extract", "signal")
                    /\ te_pc' = "done"
               ELSE ReturnSimple
       ELSE ReturnSimple
    /\ UNCHANGED <<te_text, te_duration, speech_boundaries>>

InitTiming ==
    /\ te_pc = "start"
    /\ te_text \in Texts
    /\ te_duration = Unbound
    /\ speech_boundaries = <<>>
    /\ word_timings = <<>>
    /\ te_ret = NoRet

TimingIdle ==
    /\ te_pc = "idle"
    /\ te_text = <<>>
    /\ te_duration = Unbound
    /\ speech_boundaries = <<>>
    /\ word_timings = <<>>
    /\ te_ret = NoRet

(***************************************************************************)
(* The word timings sidecar: audio_generator.save_word_timings and         *)
(* load_word_timings, and the renderer's own loading of the sidecar in     *)
(* video_creator.create_video_from_audio_and_images                        *)
(*                                                                         *)
(* A path is a sequence of parts, <<"n", ".wav">> for "n.wav".  A          *)
(* transcript is a sequence of <<word, start, end>> tuples of Python       *)
(* values; times are written as digit strings.                             *)
(***************************************************************************)
AudioPaths == {<<"n", ".wav">>, <<"n", ".mp3">>, <<"n", ".ogg">>}

\* path.replace('.wav', '_timings.json').replace('.mp3', '_timings.json')
timing_file(path) ==
    [k \in 1..Len(path) |-> IF path[k] \in {".wav", ".mp3"} THEN "_timings.json" ELSE path[k]]

SidecarPaths == AudioPaths \cup {timing_file(p) : p \in AudioPaths}

K_word == <<"w", "o", "r", "d">>
K_start == <<"s", "t", "a", "r", "t">>
K_end == <<"e", "n", "d">>

\* Lines 165-168: one {"word", "start", "end"} object per tuple.
timings_data(word_timings_in) ==
    PyList([k \in 1..Len(word_timings_in) |->
               PyDict(<< <<K_word, word_timings_in[k][1]>>,
                         <<K_start, word_timings_in[k][2]>>,
                         <<K_end, word_timings_in[k][3]>> >>)])

\* json.dump(obj, f, indent=2): members one per line, indented two spaces
\* per nesting level; an empty list or object stays on one line.
RECURSIVE Spaces(_)
Spaces(n) == IF n <= 0 THEN <<>> ELSE <<" ">> \o Spaces(n - 1)

NewLine(level) == <<"\n">> \o Spaces(2 * level)

RECURSIVE EncodeIndent(_, _)
RECURSIVE EncodeIndentItems(_, _, _, _)
RECURSIVE EncodeIndentPairs(_, _, _, _)

EncodeIndent(v, level) ==
    CASE v[1] = "list" ->
           IF Len(v[2]) = 0 THEN <<"[", "]">>
           ELSE EncodeIndentItems(v[2], 1, level + 1, <<"[">>)
      [] v[1] = "dict" ->
           IF Len(v[2]) = 0 THEN <<"{", "}">>
           ELSE EncodeIndentPairs(v[2], 1, level + 1, <<"{">>)
      [] OTHER -> Encode(v).text

EncodeIndentItems(items, k, level, acc) ==
    IF k > Len(items) THEN acc \o NewLine(level - 1) \o <<"]">>
    ELSE LET sep == IF k = 1 THEN <<>> ELSE <<",">>
         IN EncodeIndentItems(items, k + 1, level,
                              acc \o sep \o NewLine(level) \o EncodeIndent(items[k], level))

EncodeIndentPairs(pairs, k, level, acc) ==
    IF k > Len(pairs) THEN acc \o NewLine(level - 1) \o <<"}">>
    ELSE LET sep == IF k = 1 THEN <<>> ELSE <<",">>
             key == <<Q>> \o pairs[k][1] \o <<Q, ":", " ">>
         IN EncodeIndentPairs(pairs, k + 1, level,
                              acc \o sep \o NewLine(level) \o key
                                  \o EncodeIndent(pairs[k][2], level))

\* key in dict
RECURSIVE DictHas(_, _, _)
DictHas(pairs, key, k) ==
    IF k = 0 THEN FALSE
    ELSE IF pairs[k][1] = key THEN TRUE
    ELSE DictHas(pairs, key, k - 1)

Outcome(exc, val) == [exc |-> exc, val |-> val]

\* Variant reading the members with item.get(...), which gives None for a
\* member that is not there.
ItemTuple_Get(item) ==
    IF item[1] # "dict" THEN Outcome("TypeError", <<>>)
    ELSE Outcome("none", <<DictGet(item[2], K_word, Len(item[2])),
                           DictGet(item[2], K_start, Len(item[2])),
                           DictGet(item[2], K_end, Len(item[2]))>>)

\* (item["word"], item["start"], item["end"]): KeyError for an object that
\* lacks one of them, TypeError for an item that is not an object.
ItemTuple(item) ==
    IF item[1] # "dict" THEN Outcome("TypeError", <<>>)
    ELSE IF \E key \in {K_word, K_start, K_end} : ~DictHas(item[2], key, Len(item[2]))
    THEN Outcome("KeyError", <<>>)
    ELSE Outcome("none", <<DictGet(item[2], K_word, Len(item[2])),
                           DictGet(item[2], K_start, Len(item[2])),
                           DictGet(item[2], K_end, Len(item[2]))>>)

\* `for item in timings_data`: the items of a list, the keys of an object,
\* the characters of a string; anything else is not iterable.
Iterate(v) ==
    CASE v[1] = "list" -> Outcome("none", v[2])
      [] v[1] = "dict" -> Outcome("none", [k \in 1..Len(v[2]) |-> PyStr(v[2][k][1])])
      [] v[1] = "str" -> Outcome("none", [k \in 1..Len(v[2]) |-> PyStr(<<v[2][k]>>)])
      [] OTHER -> Outcome("TypeError", <<>>)

RECURSIVE LoadItems(_, _, _)
LoadItems(items, k, acc) ==
    IF k > Len(items) THEN Outcome("none", acc)
    ELSE LET r == ItemTuple(items[k]) IN
         IF r.exc # "none" THEN r ELSE LoadItems(items, k + 1, Append(acc, r.val))

\* The try body of lines 183-186 of audio_generator.py (214-218 of
\* video_creator.py).
LoadBody(file) ==
    IF ~file.readable THEN Outcome("OSError", <<>>)
    ELSE LET r == Loads(file.text) IN
         IF ~r.ok THEN Outcome("JSONDecodeError", <<>>)
         ELSE LET it == Iterate(r.val) IN
              IF it.exc # "none" THEN it ELSE LoadItems(it.val, 1, <<>>)

Loaded(raised, val) == [raised |-> raised, val |-> val]
NotLoaded == Loaded(FALSE, <<>>)

\* `except Exception` at line 187, then `return []` at line 190.
LoadCatch(outcome) ==
    IF outcome.exc = "none" THEN Loaded(FALSE, outcome.val) ELSE Loaded(FALSE, <<>>)

\* audio_generator.load_word_timings(audio_path)
load_word_timings(fs, audio_path) ==
    LET file == fs[timing_file(audio_path)] IN
    IF file.exists THEN LoadCatch(LoadBody(file)) ELSE Loaded(FALSE, <<>>)

\* The content of the audio artifact (no JSON text).
AudioFile == File(TRUE, TRUE, <<"R", "I", "F", "F">>)

Num0 == PyNum(<<"0">>)
Num15 == PyNum(<<"1", "5">>)
Word_a == PyStr(<<"a">>)
Transcripts ==
    {<<>>,
     << <<Word_a, Num0, Num1>> >>,
     << <<Word_a, Num0, Num15>>, <<PyStr(<<"b", ".">>), Num15, Num15>> >>,
     << <<PyStr(<<>>), Num1, Num0>> >>}

\* States a sidecar can be found in.
SidecarStates ==
    {[class |-> "missing", file |-> NoFile],
     [class |-> "unreadable", file |-> File(TRUE, FALSE, <<>>)],
     [class |-> "notjson", file |-> File(TRUE, TRUE, <<>>)],
     [class |-> "notjson", file |-> File(TRUE, TRUE, <<"[", "\n", " ", " ", "{">>)],
     [class |-> "notlist", file |-> File(TRUE, TRUE, T_null)],
     [class |-> "notlist", file |-> File(TRUE, TRUE, Encode(Record(Num1)).text)],
     [class |-> "lacking", file |-> File(TRUE, TRUE, Encode(PyList(<<Num1>>)).text)],
     [class |-> "lacking",
      file |-> File(TRUE, TRUE,
                    EncodeIndent(PyList(<<PyDict(<< <<K_word, Word_a>>, <<K_start, Num0>> >>)>>), 0))],
     [class |-> "lacking",
      file |-> File(TRUE, TRUE,
                    EncodeIndent(PyList(<<timings_data(<< <<Word_a, Num0, Num1>> >>)[2][1],
                                          PyDict(<< <<K_word, Word_a>>, <<K_end, Num1>> >>)>>), 0))],
     [class |-> "valid",
      file |-> File(TRUE, TRUE, EncodeIndent(timings_data(<< <<Word_a, Num0, Num1>> >>), 0))]}

NotSaved == [done |-> FALSE, transcript |-> <<>>]
Rendering(source, loaded, estimated) ==
    [source |-> source, loaded |-> loaded, estimated |-> estimated]
NotRendered == Rendering("none", <<>>, <<>>)

\* The text and duration the renderer falls back on.
RenderText == <<Token("w", 8), Token(".", 1), Token("w", 7)>>
RenderDuration == Rat(10, 1)

\* save_word_timings(word_timings, output_path): lines 163-174; open() may
\* fail, and nothing catches it.
SaveTimings ==
    /\ sc_pc \in {"start", "loaded"}
    /\ \E T \in Transcripts, openFails \in BOOLEAN :
          IF openFails
          THEN UNCHANGED <<sc_fs, sc_class, sc_saved>>
          ELSE /\ sc_fs' = [sc_fs EXCEPT ![timing_file(sc_path)] =
                               File(TRUE, TRUE, EncodeIndent(timings_data(T), 0))]
               /\ sc_class' = "saved"
               /\ sc_saved' = [done |-> TRUE, transcript |-> T]
    /\ sc_pc' = "saved"
    /\ UNCHANGED <<sc_path, sc_loaded, sc_render>>

\* load_word_timings(audio_path): lines 177-190
LoadTimings ==
    /\ sc_pc \in {"start", "saved"}
    /\ sc_loaded' = load_word_timings(sc_fs, sc_path)
    /\ sc_pc' = "loaded"
    /\ UNCHANGED <<sc_fs, sc_path, sc_class, sc_saved, sc_render>>

\* video_creator.py lines 209-226: the renderer reads the sidecar itself
\* and estimates the timings when it ends up with none.
RenderTimings ==
    /\ sc_pc \in {"start", "saved", "loaded"}
    /\ LET file == sc_fs[timing_file(sc_path)]
           got == IF file.exists THEN LoadCatch(LoadBody(file)) ELSE Loaded(FALSE, <<>>)
       IN sc_render' =
             IF got.raised THEN Rendering("failed", <<>>, <<>>)
             ELSE IF Len(got.val) = 0
             THEN Rendering("estimate", <<>>, estimate_word_timings(RenderText, RenderDuration))
             ELSE Rendering("file", got.val, <<>>)
    /\ sc_pc' = "rendered"
    /\ UNCHANGED <<sc_fs, sc_path, sc_class, sc_saved, sc_loaded>>

InitSidecar ==
    /\ sc_pc = "start"
    /\ sc_path \in AudioPaths
    /\ \E st \in SidecarStates :
          /\ sc_class = (IF timing_file(sc_path) = sc_path THEN "audio" ELSE st.class)
          /\ sc_fs = [p \in SidecarPaths |->
                         IF p = sc_path THEN AudioFile
                         ELSE IF p = timing_file(sc_path) THEN st.file
                         ELSE NoFile]
    /\ sc_saved = NotSaved
    /\ sc_loaded = NotLoaded
    /\ sc_render = NotRendered

SidecarIdle ==
    /\ sc_pc = "idle"
    /\ sc_path = <<>>
    /\ sc_class = "none"
    /\ sc_fs = [p \in SidecarPaths |-> NoFile]
    /\ sc_saved = NotSaved
    /\ sc_loaded = NotLoaded
    /\ sc_render = NotRendered

(***************************************************************************)
(* video_creator.create_subtitle_clips: grouping the words into phrases    *)
(***************************************************************************)
\* Lines 92-96: the phrase ends on sentence punctuation, at 8 words, or at
\* the last word.
should_end_phrase_NoFlush(word, n_current, i, n_words) ==
    \/ endswith(word, {".", "!", "?"})
    \/ n_current >= 8

should_end_phrase_OffByOne(word, n_current, i, n_words) ==
    \/ endswith(word, {".", "!", "?"})
    \/ n_current > 8
    \/ i = n_words - 1

should_end_phrase(word, n_current, i, n_words) ==
    \/ endswith(word, {".", "!", "?"})
    \/ n_current >= 8
    \/ i = n_words - 1

\* Lines 99-110: the clip shows ' '.join(current_text), kept as the word list.
SubtitleClip(phrase, start, dur) == [text |-> phrase, start |-> start, duration |-> dur]

\* Transcripts of n words, each of another length, word k lasting from
\* k - 1 to k seconds, with at most one word ending in a punctuation mark.
CaptionInputs ==
    {[k \in 1..n |-> Timing(Token(IF k = p THEN mark ELSE "w", k + 1), k - 1, k)] :
        n \in 0..MaxWords, p \in 0..MaxWords, mark \in {".", ","}}

\* Lines 85-116: one iteration of the loop; TextClip(...) may raise, and
\* nothing in create_subtitle_clips catches it.
SubtitleStep ==
    /\ cs_pc = "loop"
    /\ cs_i < Len(cs_timings)
    /\ LET entry == cs_timings[cs_i + 1]
           start0 == IF Len(current_text) = 0 THEN entry.start ELSE current_start
           phrase == Append(current_text, entry.word)
       IN IF should_end_phrase(entry.word, Len(phrase), cs_i, Len(cs_timings))
          THEN \E textClipRaises \in BOOLEAN :
                  IF textClipRaises
                  THEN /\ cs_pc' = "raised"
                       /\ current_text' = phrase
                       /\ current_start' = start0
                       /\ UNCHANGED <<cs_i, subtitle_clips>>
                  ELSE /\ subtitle_clips' =
                             Append(subtitle_clips,
                                    SubtitleClip(phrase, start0, entry.end - start0))
                       /\ current_text' = <<>>
                       /\ current_start' = start0
                       /\ cs_i' = cs_i + 1
                       /\ cs_pc' = "loop"
          ELSE /\ current_text' = phrase
               /\ current_start' = start0
               /\ cs_i' = cs_i + 1
               /\ UNCHANGED <<cs_pc, subtitle_clips>>
    /\ UNCHANGED cs_timings

\* Line 118
SubtitleReturn ==
    /\ cs_pc = "loop"
    /\ cs_i = Len(cs_timings)
    /\ cs_pc' = "done"
    /\ UNCHANGED <<cs_timings, cs_i, current_text, current_start, subtitle_clips>>

InitCaptions ==
    /\ cs_pc = "loop"
    /\ cs_timings \in CaptionInputs
    /\ cs_i = 0
    /\ current_text = <<>>
    /\ current_start = 0
    /\ subtitle_clips = <<>>

CaptionsIdle ==
    /\ cs_pc = "idle"
    /\ cs_timings = <<>>
    /\ cs_i = 0
    /\ current_text = <<>>
    /\ current_start = 0
    /\ subtitle_clips = <<>>

(***************************************************************************)
(* video_creator.create_video_from_audio_and_images: the image slideshow   *)
(***************************************************************************)
\* Line 176
image_duration_FloorDiv(d, n) == IF n > 1 THEN Rat(d \div n, 1) ELSE Rat(d, 1)

image_duration(d, n) == IF n > 1 THEN Rat(d, n) ELSE Rat(d, 1)

ImageClip(image, start, dur) == [image |-> image, start |-> start, duration |-> dur]

VideoDurations == {3, 10}

\* Lines 147-155: no image paths raises ValueError and a failure to open
\* the audio raises too; the handler of line 275 returns "".
SlideshowStart ==
    /\ vc_pc = "start"
    /\ \E audioFails \in BOOLEAN :
          vc_pc' = IF Len(vc_loads) = 0 \/ audioFails THEN "failed" ELSE "loop"
    /\ UNCHANGED <<vc_loads, vc_duration, vc_i, image_clips>>

\* Lines 178-196: one iteration; an image that cannot be loaded or resized
\* is logged and skipped.
SlideshowStep ==
    /\ vc_pc = "loop"
    /\ vc_i < Len(vc_loads)
    /\ LET per_image == image_duration(vc_duration, Len(vc_loads)) IN
       image_clips' =
          IF vc_loads[vc_i + 1]
          THEN Append(image_clips,
                      ImageClip(vc_i + 1, RMul(Rat(vc_i, 1), per_image), per_image))
          ELSE image_clips
    /\ vc_i' = vc_i + 1
    /\ UNCHANGED <<vc_pc, vc_loads, vc_duration>>

\* Lines 198-207: with no image clip at all, a text placeholder for the
\* whole duration (image 0).
SlideshowFill ==
    /\ vc_pc = "loop"
    /\ vc_i = Len(vc_loads)
    /\ image_clips' =
          IF Len(image_clips) = 0
          THEN <<ImageClip(0, Zero, Rat(vc_duration, 1))>>
          ELSE image_clips
    /\ vc_pc' = "done"
    /\ UNCHANGED <<vc_loads, vc_duration, vc_i>>

InitSlots ==
    /\ vc_pc = "start"
    /\ vc_loads \in UNION {[1..n -> BOOLEAN] : n \in 0..MaxImages}
    /\ vc_duration \in VideoDurations
    /\ vc_i = 0
    /\ image_clips = <<>>

SlotsIdle ==
    /\ vc_pc = "idle"
    /\ vc_loads = <<>>
    /\ vc_duration = 0
    /\ vc_i = 0
    /\ image_clips = <<>>

(***************************************************************************)
(* download_images (image_handler.py, and the older copy in main.py): one  *)
(* download_one per URL in a thread pool of 8, results gathered with       *)
(* as_completed                                                            *)
(*                                                                         *)
(* A URL is known by the file name it is saved under and by its kind; two  *)
(* URLs may give the same sanitized file name.  A file is "absent",        *)
(* "partial" (opened for writing, not closed yet, or left unfinished),     *)
(* "complete", or "torn" (opened again while another worker was writing    *)
(* it).                                                                    *)
(***************************************************************************)
Impls == {"image_handler", "main"}
FileNames == {"a.jpg", "b.jpg"}
FetchUrls ==
    {[kind |-> "image", file |-> f] : f \in FileNames}
    \cup {[kind |-> "nonimage", file |-> "-"], [kind |-> "malformed", file |-> "-"]}

Future(pc, res, outcome) == [pc |-> pc, result |-> res, outcome |-> outcome]
Finished(res, outcome) == Future("done", res, outcome)

\* Workers that have the file open for writing.
Writers(f) ==
    {w \in DOMAIN dl_futures : dl_futures[w].pc = "write" /\ dl_urls[w].file = f}

\* Lines 34-54 (main.py 207-221): the file name of the URL; a URL without an
\* image extension is skipped; an exception goes to the outer handler of
\* line 81 (main.py 247); image_handler.py returns the path of a file that exists already.
FetchStart(w) ==
    /\ dl_futures[w].pc = "start"
    /\ LET url == dl_urls[w] IN
       dl_futures' = [dl_futures EXCEPT ![w] =
          CASE url.kind = "nonimage" -> Finished("None", "skipped")
            [] url.kind = "malformed" -> Finished("None", "error")
            [] OTHER ->
               IF dl_impl = "image_handler" /\ dl_fs[url.file] # "absent"
               THEN Finished(url.file, "exists")
               ELSE Future("request", "None", "none")]
    /\ UNCHANGED <<dl_pc, dl_impl, dl_urls, dl_fs, dl_yielded, output_paths>>

\* Lines 56-68 (main.py 222-233, 242-246): the request fails, or answers
\* with a bad status, or succeeds.
FetchRequest(w) ==
    /\ dl_futures[w].pc = "request"
    /\ \E response \in {"ok", "request_error", "bad_status"} :
          dl_futures' = [dl_futures EXCEPT ![w] =
             IF response = "ok" THEN Future("open", "None", "none")
             ELSE Finished("None", response)]
    /\ UNCHANGED <<dl_pc, dl_impl, dl_urls, dl_fs, dl_yielded, output_paths>>

\* What a failure inside the `with open(...)` block leads to: image_handler.py
\* unlinks the file (lines 76-80), main.py only logs (lines 239-241).
WriteFailed ==
    IF dl_impl = "image_handler" THEN Future("cleanup", "None", "none")
    ELSE Finished("None", "write_error")

\* Line 71 (main.py 235): open(output_path, "wb") creates or truncates the
\* file.
FetchOpen(w) ==
    /\ dl_futures[w].pc = "open"
    /\ LET f == dl_urls[w].file IN
       \E opened \in BOOLEAN :
          IF opened
          THEN /\ dl_fs' = [dl_fs EXCEPT ![f] = IF Writers(f) = {} THEN "partial" ELSE "torn"]
               /\ dl_futures' = [dl_futures EXCEPT ![w] = Future("write", "None", "none")]
          ELSE /\ dl_futures' = [dl_futures EXCEPT ![w] = WriteFailed]
               /\ UNCHANGED dl_fs
    /\ UNCHANGED <<dl_pc, dl_impl, dl_urls, dl_yielded, output_paths>>

\* Lines 72-75 (main.py 236-238): the chunks are written and the file is
\* closed; a file unlinked meanwhile stays absent.
FetchWrite(w) ==
    /\ dl_futures[w].pc = "write"
    /\ LET f == dl_urls[w].file IN
       \E written \in BOOLEAN :
          IF written
          THEN /\ dl_fs' = [dl_fs EXCEPT ![f] = IF @ = "partial" THEN "complete" ELSE @]
               /\ dl_futures' = [dl_futures EXCEPT ![w] = Finished(f, "written")]
          ELSE /\ dl_futures' = [dl_futures EXCEPT ![w] = WriteFailed]
               /\ UNCHANGED dl_fs
    /\ UNCHANGED <<dl_pc, dl_impl, dl_urls, dl_yielded, output_paths>>

\* Lines 76-80: output_path.unlink(missing_ok=True)
FetchCleanup(w) ==
    /\ dl_futures[w].pc = "cleanup"
    /\ dl_fs' = [dl_fs EXCEPT ![dl_urls[w].file] = "absent"]
    /\ dl_futures' = [dl_futures EXCEPT ![w] = Finished("None", "write_error")]
    /\ UNCHANGED <<dl_pc, dl_impl, dl_urls, dl_yielded, output_paths>>

download_one ==
    \E w \in DOMAIN dl_futures :
       \/ FetchStart(w)
       \/ FetchRequest(w)
       \/ FetchOpen(w)
       \/ FetchWrite(w)
       \/ FetchCleanup(w)

\* Lines 91-93 (main.py 257-259): a result that is not None is appended.
Gathered_DropOnFailure(res, paths) ==
    IF res # "None" THEN Append(paths, res) ELSE <<>>

Gathered(res, paths) ==
    IF res # "None" THEN Append(paths, res) ELSE paths

\* Lines 88-93 (main.py 254-259): as_completed yields a future once it is
\* done, in the order in which the futures finish.
GatherNext ==
    /\ dl_pc = "gather"
    /\ \E w \in DOMAIN dl_futures :
          /\ dl_futures[w].pc = "done"
          /\ \A k \in 1..Len(dl_yielded) : dl_yielded[k] # w
          /\ dl_yielded' = Append(dl_yielded, w)
          /\ output_paths' = Gathered(dl_futures[w].result, output_paths)
    /\ UNCHANGED <<dl_pc, dl_impl, dl_urls, dl_fs, dl_futures>>

\* Line 94 (main.py 260)
DownloadReturn ==
    /\ dl_pc = "gather"
    /\ Len(dl_yielded) = Len(dl_urls)
    /\ dl_pc' = "returned"
    /\ UNCHANGED <<dl_impl, dl_urls, dl_fs, dl_futures, dl_yielded, output_paths>>

\* Lines 86-87: every URL is submitted; files of an earlier run may be there.
InitDownload ==
    /\ dl_pc = "gather"
    /\ dl_impl \in Impls
    /\ dl_urls \in UNION {[1..n -> FetchUrls] : n \in 0..MaxUrls}
    /\ dl_fs \in [FileNames -> {"absent", "complete"}]
    /\ dl_futures = [w \in 1..Len(dl_urls) |-> Future("start", "None", "none")]
    /\ dl_yielded = <<>>
    /\ output_paths = <<>>

DownloadIdle ==
    /\ dl_pc = "idle"
    /\ dl_impl = "none"
    /\ dl_urls = <<>>
    /\ dl_fs = [f \in FileNames |-> "absent"]
    /\ dl_futures = <<>>
    /\ dl_yielded = <<>>
    /\ output_paths = <<>>

(***************************************************************************)
(* The cached lookups: animal_data.generate_animal_info and                *)
(* image_handler.get_animal_photo_urls_wikimedia / _unsplash, over the     *)
(* module-level SimpleCache of cache.py, for one animal name               *)
(***************************************************************************)
InfoKeys == {"animal_info", "image_urls_wikimedia", "image_urls_unsplash"}

\* A cache file is absent, or holds a value, or holds what an interrupted
\* json.dump left.
NoEntry == <<"absent">>
Corrupt == <<"corrupt">>

\* The descriptions the service can answer with, after .strip().
Descriptions == {PyStr(<<>>), PyStr(<<"d">>), PyStr(<<"e">>)}
Url_u == PyStr(<<"u">>)
Url_v == PyStr(<<"v">>)
UrlLists == {PyList(<<>>), PyList(<<Url_u>>), PyList(<<Url_u, Url_v>>)}
\* f"Error: {e}" and "No images found."
ErrorMsg == PyStr(<<"E", "r", "r", "o", "r", ":">>)
NoImagesFound == PyStr(<<"N", "o", " ", "i", "m", "a", "g", "e", "s">>)
RaisedValueError == <<"raised">>

\* Python's truth value of None, a str or a list.
Truthy(v) == v \notin {PyNone, PyStr(<<>>), PyList(<<>>)}

\* cache.get (cache.py 23-34): a missing or unreadable file gives None.
cache_get(c, key) == IF c[key] \in {NoEntry, Corrupt} THEN PyNone ELSE c[key]

\* cache.set (cache.py 36-44): the value is written, or open() fails and
\* nothing changes, or the write fails after open() truncated the file; the
\* error is logged only.
SetOutcomes == {"stored", "open_failed", "write_failed"}
cache_set(c, key, value, how) ==
    CASE how = "stored" -> [c EXCEPT ![key] = value]
      [] how = "open_failed" -> c
      [] OTHER -> [c EXCEPT ![key] = Corrupt]

\* A call: what it returned, where the value came from ("cache", "service",
\* "raised"), and how its cache.set went ("none" when it made none).
CallRecord(fn, ret, source, set) ==
    [fn |-> fn, ret |-> ret, source |-> source, set |-> set]

Returns(fn, ret, source, set) ==
    ic_log' = Append(ic_log, CallRecord(fn, ret, source, set))

\* The test `if cached_info:` / `if cached_urls:` of the three lookups.
CacheHit_NotNone(cached) == cached # PyNone

CacheHit(cached) == Truthy(cached)

\* animal_data.py 89-134
GenerateAnimalInfo ==
    /\ Len(ic_log) < MaxCalls
    /\ LET cached_info == cache_get(ic_cache, "animal_info") IN
       IF CacheHit(cached_info)
       THEN Returns("info", cached_info, "cache", "none") /\ UNCHANGED ic_cache
       ELSE \E api_key \in BOOLEAN :
               IF ~api_key
               THEN Returns("info", RaisedValueError, "raised", "none") /\ UNCHANGED ic_cache
               ELSE \/ Returns("info", ErrorMsg, "service", "none") /\ UNCHANGED ic_cache
                    \/ \E animal_info \in Descriptions, how \in SetOutcomes :
                          /\ ic_cache' = cache_set(ic_cache, "animal_info", animal_info, how)
                          /\ Returns("info", animal_info, "service", how)

\* image_handler.py 160-201
GetUrlsWikimedia ==
    /\ Len(ic_log) < MaxCalls
    /\ LET cached_urls == cache_get(ic_cache, "image_urls_wikimedia") IN
       IF CacheHit(cached_urls)
       THEN Returns("wikimedia", cached_urls, "cache", "none") /\ UNCHANGED ic_cache
       ELSE \/ Returns("wikimedia", ErrorMsg, "service", "none") /\ UNCHANGED ic_cache
            \/ \E urls \in UrlLists, how \in SetOutcomes :
                  IF Truthy(urls)
                  THEN /\ ic_cache' = cache_set(ic_cache, "image_urls_wikimedia", urls, how)
                       /\ Returns("wikimedia", urls, "service", how)
                  ELSE Returns("wikimedia", NoImagesFound, "service", "none")
                       /\ UNCHANGED ic_cache

\* image_handler.py 109-145: `results` is tested, and the list built from
\* the results that have urls.regular is cached and returned, empty or not.
GetUrlsUnsplash ==
    /\ Len(ic_log) < MaxCalls
    /\ LET cached_urls == cache_get(ic_cache, "image_urls_unsplash") IN
       IF CacheHit(cached_urls)
       THEN Returns("unsplash", cached_urls, "cache", "none") /\ UNCHANGED ic_cache
       ELSE \E access_key \in BOOLEAN :
               IF ~access_key
               THEN Returns("unsplash", RaisedValueError, "raised", "none") /\ UNCHANGED ic_cache
               ELSE \/ Returns("unsplash", ErrorMsg, "service", "none") /\ UNCHANGED ic_cache
                    \/ Returns("unsplash", NoImagesFound, "service", "none")
                       /\ UNCHANGED ic_cache
                    \/ \E urls \in UrlLists, how \in SetOutcomes :
                          /\ ic_cache' = cache_set(ic_cache, "image_urls_unsplash", urls, how)
                          /\ Returns("unsplash", urls, "service", how)

\* cache.clear (cache.py 46-53)
ClearCache ==
    /\ Len(ic_log) < MaxCalls
    /\ ic_cache' = [k \in InfoKeys |-> NoEntry]
    /\ Returns("clear", PyNone, "none", "none")

InitInfo ==
    /\ ic_cache = [k \in InfoKeys |-> NoEntry]
    /\ ic_log = <<>>

InfoIdle ==
    /\ ic_cache = [k \in InfoKeys |-> NoEntry]
    /\ ic_log = <<>>

(***************************************************************************)
(* Runs of audio_generator.generate_audio followed by the renderer's       *)
(* loading of the timings sidecar                                          *)
(*                                                                         *)
(* The audio of a subject is output_audio/<name>.wav and its sidecar       *)
(* output_audio/<name>_timings.json, whichever run writes them.  A file is *)
(* known by the number of the run that wrote it; 0 stands for no file.     *)
(***************************************************************************)
Subjects == {"cat", "dog"}
NoRun == 0
NoRender == [source |-> "none", subject |-> "none", sidecar |-> NoRun, audio |-> NoRun]

\* Lines 245-251: what generate_audio does with the outcome of
\* extract_word_timings_from_audio: a non-empty transcript is saved; an
\* empty one, or an exception from the extraction or from the save, is
\* printed only.
sidecar_after(outcome, run, sidecar) ==
    IF outcome = "timings" THEN run ELSE sidecar

\* Lines 207-238: tts_to_file writes output_audio/<name>.wav, or raises and
\* generate_audio ends there.
Synthesize ==
    /\ ar_pc \in {"ready", "generated"}
    /\ ar_run < MaxRuns
    /\ ar_run' = ar_run + 1
    /\ \E name \in Subjects, raised \in BOOLEAN :
          /\ ar_subject' = name
          /\ IF raised
             THEN ar_pc' = "ready" /\ UNCHANGED ar_audio
             ELSE /\ ar_pc' = "extract"
                  /\ ar_audio' = [ar_audio EXCEPT ![name] = ar_run']
    /\ UNCHANGED <<ar_sidecar, ar_render>>

\* Lines 240-253
ExtractTimings ==
    /\ ar_pc = "extract"
    /\ \E outcome \in {"timings", "empty", "raised"} :
          ar_sidecar' = [ar_sidecar EXCEPT ![ar_subject] = sidecar_after(outcome, ar_run, @)]
    /\ ar_pc' = "generated"
    /\ UNCHANGED <<ar_run, ar_subject, ar_audio, ar_render>>

\* video_creator.py 209-226: the renderer reads the sidecar of the audio
\* path when it exists, and estimates when there is none or it cannot be
\* read.
RenderSubtitles ==
    /\ ar_pc = "generated"
    /\ \E readable \in BOOLEAN :
          ar_render' =
             IF ar_sidecar[ar_subject] # NoRun /\ readable
             THEN [source |-> "sidecar", subject |-> ar_subject,
                   sidecar |-> ar_sidecar[ar_subject], audio |-> ar_audio[ar_subject]]
             ELSE [source |-> "estimate", subject |-> ar_subject,
                   sidecar |-> NoRun, audio |-> ar_audio[ar_subject]]
    /\ ar_pc' = "ready"
    /\ UNCHANGED <<ar_run, ar_subject, ar_audio, ar_sidecar>>

InitRuns ==
    /\ ar_pc = "ready"
    /\ ar_run = 0
    /\ ar_subject = "none"
    /\ ar_audio = [s \in Subjects |-> NoRun]
    /\ ar_sidecar = [s \in Subjects |-> NoRun]
    /\ ar_render = NoRender

RunsIdle ==
    /\ ar_pc = "idle"
    /\ ar_run = 0
    /\ ar_subject = "none"
    /\ ar_audio = [s \in Subjects |-> NoRun]
    /\ ar_sidecar = [s \in Subjects |-> NoRun]
    /\ ar_render = NoRender

(***************************************************************************)
(* get_animal_name: animal_data.py, and the older copy in main.py          *)
(*                                                                         *)
(* The names file holds a JSON list of strings; previous_animal_names.txt  *)
(* holds one used name per line (a missing file reads as no line).         *)
(***************************************************************************)
NameImpls == {"animal_data", "main"}
ListedNames == {"cat", " cat", "dog", " "}
UsedNames == {"cat", "dog"}

\* str.strip()
strip(name) ==
    CASE name = " cat" -> "cat"
      [] name = " " -> ""
      [] OTHER -> name

NameLists == UNION {[1..n -> ListedNames] : n \in 0..MaxNames}
PreviousLists == UNION {[1..n -> UsedNames] : n \in 0..2}

\* list.remove(x) removes the first occurrence of x; a list without x is
\* left as it is (the ValueError is caught, animal_data.py 35-38).
RECURSIVE list_remove(_, _)
list_remove(l, x) ==
    IF l = <<>> THEN <<>>
    ELSE IF Head(l) = x THEN Tail(l)
    ELSE <<Head(l)>> \o list_remove(Tail(l), x)

NameResult(state, value) == [state |-> state, value |-> value]
NameRaises(error) ==
    /\ gn_pc' = "done"
    /\ gn_ret' = NameResult("raised", error)
NameReturns(name) ==
    /\ gn_pc' = "done"
    /\ gn_ret' = NameResult("returned", name)

\* animal_data.py 20-32 (main.py 388-400): the list is read; a missing file
\* or an empty list raises.
NameLoad ==
    /\ gn_pc = "load"
    /\ IF ~gn_exists
       THEN NameRaises("FileNotFoundError") /\ UNCHANGED <<animal_list, gn_i>>
       ELSE IF gn_names = <<>>
       THEN NameRaises("ValueError") /\ UNCHANGED <<animal_list, gn_i>>
       ELSE /\ animal_list' = gn_names
            /\ gn_i' = 0
            /\ gn_pc' = IF gn_impl = "animal_data" THEN "remove" ELSE "choose"
            /\ UNCHANGED gn_ret
    /\ UNCHANGED <<gn_impl, gn_exists, gn_names, gn_previous, gn_depth>>

\* animal_data.py 34-38: one iteration of the loop over the used names.
NameRemove ==
    /\ gn_pc = "remove"
    /\ IF gn_i < Len(gn_previous)
       THEN /\ animal_list' = list_remove(animal_list, gn_previous[gn_i + 1])
            /\ gn_i' = gn_i + 1
            /\ UNCHANGED gn_pc
       ELSE /\ gn_pc' = "choose"
            /\ UNCHANGED <<animal_list, gn_i>>
    /\ UNCHANGED <<gn_impl, gn_exists, gn_names, gn_previous, gn_depth, gn_ret>>

\* animal_data.py 40-47: random.choice raises IndexError on an empty list.
\* main.py 404-418: a chosen name that has been used makes get_animal_name
\* call itself; Python ends a recursion deeper than its limit with a
\* RecursionError.
NameChoose ==
    /\ gn_pc = "choose"
    /\ IF animal_list = <<>>
       THEN NameRaises("IndexError") /\ UNCHANGED gn_depth
       ELSE \E k \in 1..Len(animal_list) :
               LET animal_name == strip(animal_list[k]) IN
               IF animal_name = ""
               THEN NameRaises("ValueError") /\ UNCHANGED gn_depth
               ELSE IF gn_impl = "main"
                       /\ \E p \in 1..Len(gn_previous) : gn_previous[p] = animal_name
               THEN IF gn_depth + 1 > RecursionLimit
                    THEN NameRaises("RecursionError") /\ UNCHANGED gn_depth
                    ELSE /\ gn_depth' = gn_depth + 1
                         /\ gn_pc' = "load"
                         /\ UNCHANGED gn_ret
               ELSE NameReturns(animal_name) /\ UNCHANGED gn_depth
    /\ UNCHANGED <<gn_impl, gn_exists, gn_names, gn_previous, animal_list, gn_i>>

NoName == NameResult("none", "")

InitNames ==
    /\ gn_pc = "load"
    /\ gn_impl \in NameImpls
    /\ gn_exists \in BOOLEAN
    /\ gn_names \in NameLists
    /\ gn_exists = FALSE => gn_names = <<>>
    /\ gn_previous \in PreviousLists
    /\ animal_list = <<>>
    /\ gn_i = 0
    /\ gn_depth = 0
    /\ gn_ret = NoName

NamesIdle ==
    /\ gn_pc = "idle"
    /\ gn_impl = "none"
    /\ gn_exists = FALSE
    /\ gn_names = <<>>
    /\ gn_previous = <<>>
    /\ animal_list = <<>>
    /\ gn_i = 0
    /\ gn_depth = 0
    /\ gn_ret = NoName

PipelineIdle ==
    SendIdle /\ MainIdle /\ CacheIdle /\ TimingIdle /\ SidecarIdle /\ CaptionsIdle /\ SlotsIdle
RestIdle == DownloadIdle /\ InfoIdle /\ RunsIdle /\ NamesIdle

(***************************************************************************)
(* Specifications                                                          *)
(***************************************************************************)
InitSend == InitSendVideo /\ MainIdle /\ CacheIdle /\ TimingIdle /\ SidecarIdle /\ CaptionsIdle /\ SlotsIdle /\ RestIdle

NextSend ==
    \/ (FileCheck /\ UNCHANGED <<mainVars, cacheVars, timingVars, sidecarVars, captionVars, slotVars, restVars>>)
    \/ (LoopHead /\ UNCHANGED <<mainVars, cacheVars, timingVars, sidecarVars, captionVars, slotVars, restVars>>)
    \/ (Upload /\ UNCHANGED <<mainVars, cacheVars, timingVars, sidecarVars, captionVars, slotVars, restVars>>)
    \/ (Parse /\ UNCHANGED <<mainVars, cacheVars, timingVars, sidecarVars, captionVars, slotVars, restVars>>)
    \/ (Send /\ UNCHANGED <<mainVars, cacheVars, timingVars, sidecarVars, captionVars, slotVars, restVars>>)
    \/ (Exhausted /\ UNCHANGED <<mainVars, cacheVars, timingVars, sidecarVars, captionVars, slotVars, restVars>>)
    \/ (FileChanges /\ UNCHANGED <<mainVars, cacheVars, timingVars, sidecarVars, captionVars, slotVars, restVars>>)

SpecSend == InitSend /\ [][NextSend]_vars

InitMain == SendIdle /\ InitPipeline /\ CacheIdle /\ TimingIdle /\ SidecarIdle /\ CaptionsIdle /\ SlotsIdle /\ RestIdle

NextMain ==
    \/ (GetName /\ UNCHANGED <<sendVars, cacheVars, timingVars, sidecarVars, captionVars, slotVars, restVars>>)
    \/ (GetInfo /\ UNCHANGED <<sendVars, cacheVars, timingVars, sidecarVars, captionVars, slotVars, restVars>>)
    \/ (StartAudio /\ UNCHANGED <<sendVars, cacheVars, timingVars, sidecarVars, captionVars, slotVars, restVars>>)
    \/ (FinishAudio /\ UNCHANGED <<sendVars, cacheVars, timingVars, sidecarVars, captionVars, slotVars, restVars>>)
    \/ (CheckAudio /\ UNCHANGED <<sendVars, cacheVars, timingVars, sidecarVars, captionVars, slotVars, restVars>>)
    \/ (UrlsWikimedia /\ UNCHANGED <<sendVars, cacheVars, timingVars, sidecarVars, captionVars, slotVars, restVars>>)
    \/ (UrlsUnsplash /\ UNCHANGED <<sendVars, cacheVars, timingVars, sidecarVars, captionVars, slotVars, restVars>>)
    \/ (Download /\ UNCHANGED <<sendVars, cacheVars, timingVars, sidecarVars, captionVars, slotVars, restVars>>)
    \/ (StartRender /\ UNCHANGED <<sendVars, cacheVars, timingVars, sidecarVars, captionVars, slotVars, restVars>>)
    \/ (FinishRender /\ UNCHANGED <<sendVars, cacheVars, timingVars, sidecarVars, captionVars, slotVars, restVars>>)
    \/ (CheckVideo /\ UNCHANGED <<sendVars, cacheVars, timingVars, sidecarVars, captionVars, slotVars, restVars>>)
    \/ (Deliver /\ UNCHANGED <<sendVars, cacheVars, timingVars, sidecarVars, captionVars, slotVars, restVars>>)
    \/ (Cleanup /\ UNCHANGED <<sendVars, cacheVars, timingVars, sidecarVars, captionVars, slotVars, restVars>>)

SpecMain == InitMain /\ [][NextMain]_vars

\* One caller at a time, on a cache directory found in any state.
InitCacheSeq ==
    /\ SendIdle
    /\ MainIdle
    /\ TimingIdle
    /\ SidecarIdle
    /\ CaptionsIdle
    /\ SlotsIdle
    /\ RestIdle
    /\ \E i1 \in InitialFiles, i2 \in {i \in InitialFiles : i.class = "missing"} :
          InitCacheWith([p \in Paths |-> IF p = _get_cache_path("k1") THEN i1 ELSE i2])

SeqValues ==
    {PyNone, Num1, PyStr(<<>>), PyList(<<Num1, PyStr(<<"a">>)>>),
     PyDict(<< <<<<"a">>, PyTrue>> >>)} \cup UnserializableValues

NextCacheSeq ==
    \/ \E k \in Keys : GetExists("t1", k) /\ UNCHANGED <<sendVars, mainVars, timingVars, sidecarVars, captionVars, slotVars, restVars>>
    \/ (GetRead("t1") /\ UNCHANGED <<sendVars, mainVars, timingVars, sidecarVars, captionVars, slotVars, restVars>>)
    \/ \E k \in Keys, v \in SeqValues :
          SetOpen("t1", k, v, BOOLEAN) /\ UNCHANGED <<sendVars, mainVars, timingVars, sidecarVars, captionVars, slotVars, restVars>>
    \/ (SetWrite("t1", BOOLEAN) /\ UNCHANGED <<sendVars, mainVars, timingVars, sidecarVars, captionVars, slotVars, restVars>>)
    \/ (Clear("t1") /\ UNCHANGED <<sendVars, mainVars, timingVars, sidecarVars, captionVars, slotVars, restVars>>)

SpecCacheSeq == InitCacheSeq /\ [][NextCacheSeq]_vars

\* Concurrent callers on an empty cache directory, with no I/O failures: the
\* interleavings of the steps of get and set are what varies.
InitCache == SendIdle /\ MainIdle /\ CacheIdle /\ TimingIdle /\ SidecarIdle /\ CaptionsIdle /\ SlotsIdle /\ RestIdle

ConcurrentValues == {Num1, PyStr(<<"a">>)} \cup LongValues

NextCache ==
    \/ \E t \in Threads, k \in Keys : GetExists(t, k) /\ UNCHANGED <<sendVars, mainVars, timingVars, sidecarVars, captionVars, slotVars, restVars>>
    \/ \E t \in Threads : GetRead(t) /\ UNCHANGED <<sendVars, mainVars, timingVars, sidecarVars, captionVars, slotVars, restVars>>
    \/ \E t \in Threads, k \in Keys, v \in ConcurrentValues :
          SetOpen(t, k, v, {FALSE}) /\ UNCHANGED <<sendVars, mainVars, timingVars, sidecarVars, captionVars, slotVars, restVars>>
    \/ \E t \in Threads : SetWrite(t, {FALSE}) /\ UNCHANGED <<sendVars, mainVars, timingVars, sidecarVars, captionVars, slotVars, restVars>>

SpecCache == InitCache /\ [][NextCache]_vars

InitTimingSpec == SendIdle /\ MainIdle /\ CacheIdle /\ InitTiming /\ SidecarIdle /\ CaptionsIdle /\ SlotsIdle /\ RestIdle

NextTiming ==
    \/ (CallSimple /\ UNCHANGED <<sendVars, mainVars, cacheVars, sidecarVars, captionVars, slotVars, restVars>>)
    \/ (CallEstimate /\ UNCHANGED <<sendVars, mainVars, cacheVars, sidecarVars, captionVars, slotVars, restVars>>)
    \/ (ExtractImport /\ UNCHANGED <<sendVars, mainVars, cacheVars, sidecarVars, captionVars, slotVars, restVars>>)
    \/ (ExtractLoad /\ UNCHANGED <<sendVars, mainVars, cacheVars, sidecarVars, captionVars, slotVars, restVars>>)
    \/ (ExtractWords /\ UNCHANGED <<sendVars, mainVars, cacheVars, sidecarVars, captionVars, slotVars, restVars>>)
    \/ (ExtractPhonemize /\ UNCHANGED <<sendVars, mainVars, cacheVars, sidecarVars, captionVars, slotVars, restVars>>)
    \/ (ExtractEnergy /\ UNCHANGED <<sendVars, mainVars, cacheVars, sidecarVars, captionVars, slotVars, restVars>>)
    \/ (ExtractDistribute /\ UNCHANGED <<sendVars, mainVars, cacheVars, sidecarVars, captionVars, slotVars, restVars>>)

SpecTiming == InitTimingSpec /\ [][NextTiming]_vars

InitSidecarSpec == SendIdle /\ MainIdle /\ CacheIdle /\ TimingIdle /\ InitSidecar /\ CaptionsIdle /\ SlotsIdle /\ RestIdle

NextSidecar ==
    \/ (SaveTimings /\ UNCHANGED <<sendVars, mainVars, cacheVars, timingVars, captionVars, slotVars, restVars>>)
    \/ (LoadTimings /\ UNCHANGED <<sendVars, mainVars, cacheVars, timingVars, captionVars, slotVars, restVars>>)
    \/ (RenderTimings /\ UNCHANGED <<sendVars, mainVars, cacheVars, timingVars, captionVars, slotVars, restVars>>)

SpecSidecar == InitSidecarSpec /\ [][NextSidecar]_vars

InitCaptionsSpec ==
    SendIdle /\ MainIdle /\ CacheIdle /\ TimingIdle /\ SidecarIdle /\ InitCaptions /\ SlotsIdle /\ RestIdle

NextCaptions ==
    \/ (SubtitleStep
        /\ UNCHANGED <<sendVars, mainVars, cacheVars, timingVars, sidecarVars, slotVars, restVars>>)
    \/ (SubtitleReturn
        /\ UNCHANGED <<sendVars, mainVars, cacheVars, timingVars, sidecarVars, slotVars, restVars>>)

SpecCaptions == InitCaptionsSpec /\ [][NextCaptions]_vars

InitSlotsSpec ==
    SendIdle /\ MainIdle /\ CacheIdle /\ TimingIdle /\ SidecarIdle /\ CaptionsIdle /\ InitSlots /\ RestIdle

NextSlots ==
    \/ (SlideshowStart
        /\ UNCHANGED <<sendVars, mainVars, cacheVars, timingVars, sidecarVars, captionVars, restVars>>)
    \/ (SlideshowStep
        /\ UNCHANGED <<sendVars, mainVars, cacheVars, timingVars, sidecarVars, captionVars, restVars>>)
    \/ (SlideshowFill
        /\ UNCHANGED <<sendVars, mainVars, cacheVars, timingVars, sidecarVars, captionVars, restVars>>)

SpecSlots == InitSlotsSpec /\ [][NextSlots]_vars

InitDownloadSpec == PipelineIdle /\ InitDownload /\ InfoIdle /\ RunsIdle /\ NamesIdle

NextDownload ==
    \/ (download_one /\ UNCHANGED <<pipelineVars, infoVars, runVars, nameVars>>)
    \/ (GatherNext /\ UNCHANGED <<pipelineVars, infoVars, runVars, nameVars>>)
    \/ (DownloadReturn /\ UNCHANGED <<pipelineVars, infoVars, runVars, nameVars>>)

SpecDownload == InitDownloadSpec /\ [][NextDownload]_vars

InitInfoSpec == PipelineIdle /\ DownloadIdle /\ InitInfo /\ RunsIdle /\ NamesIdle

NextInfo ==
    \/ (GenerateAnimalInfo /\ UNCHANGED <<pipelineVars, downloadVars, runVars, nameVars>>)
    \/ (GetUrlsWikimedia /\ UNCHANGED <<pipelineVars, downloadVars, runVars, nameVars>>)
    \/ (GetUrlsUnsplash /\ UNCHANGED <<pipelineVars, downloadVars, runVars, nameVars>>)
    \/ (ClearCache /\ UNCHANGED <<pipelineVars, downloadVars, runVars, nameVars>>)

SpecInfo == InitInfoSpec /\ [][NextInfo]_vars

InitRunsSpec == PipelineIdle /\ DownloadIdle /\ InfoIdle /\ InitRuns /\ NamesIdle

NextRuns ==
    \/ (Synthesize /\ UNCHANGED <<pipelineVars, downloadVars, infoVars, nameVars>>)
    \/ (ExtractTimings /\ UNCHANGED <<pipelineVars, downloadVars, infoVars, nameVars>>)
    \/ (RenderSubtitles /\ UNCHANGED <<pipelineVars, downloadVars, infoVars, nameVars>>)

SpecRuns == InitRunsSpec /\ [][NextRuns]_vars

InitNamesSpec == PipelineIdle /\ DownloadIdle /\ InfoIdle /\ RunsIdle /\ InitNames

NextNames ==
    \/ (NameLoad /\ UNCHANGED <<pipelineVars, downloadVars, infoVars, runVars>>)
    \/ (NameRemove /\ UNCHANGED <<pipelineVars, downloadVars, infoVars, runVars>>)
    \/ (NameChoose /\ UNCHANGED <<pipelineVars, downloadVars, infoVars, runVars>>)

SpecNames == InitNamesSpec /\ [][NextNames]_vars

(***************************************************************************)
(* Properties of send_video (checked under SpecSend)                       *)
(***************************************************************************)
Attempts == SelectLog("upload")
Waits == SelectLog("sleep")
SecsOf(evs) == [k \in 1..Len(evs) |-> evs[k].secs]
Backoff == <<1, 2, 4, 8, 16, 32>>

\* Some loop iteration in which upload, parse and send all succeeded.
Succeeded(i) ==
    /\ \E k \in 1..Len(log) : log[k].e = "upload" /\ log[k].i = i /\ log[k].ok
    /\ \E k \in 1..Len(log) : log[k].e = "parse" /\ log[k].i = i /\ log[k].ok
    /\ \E k \in 1..Len(log) : log[k].e = "send" /\ log[k].i = i /\ log[k].ok

EnteredLoop == Len(log) >= 1 /\ log[1].e = "check" /\ log[1].ok

\* C1: send_video makes at most max_retries attempts; when the loop is
\* entered with max_retries >= 1 and every attempt fails, it makes exactly
\* max_retries attempts, sleeps 2^i seconds right after failed attempt i for
\* each i < max_retries - 1 (1s, 2s, 4s, ...), does not sleep after the last
\* attempt and returns False; with max_retries = 3 the sleeps are 1s then 2s.
C1_BoundedBackoff ==
    /\ Len(Attempts) <= IF max_retries < 0 THEN 0 ELSE max_retries
    /\ (/\ sv_pc = "done"
        /\ max_retries >= 1
        /\ EnteredLoop
        /\ \A i \in 0..(max_retries - 1) : ~Succeeded(i))
       => /\ Len(Attempts) = max_retries
          /\ \A k \in 1..max_retries : Attempts[k].i = k - 1
          /\ SecsOf(Waits) = SubSeq(Backoff, 1, max_retries - 1)
          /\ \A k \in 1..Len(Waits) : Waits[k].i = k - 1
          /\ \A k \in 1..Len(log) :
                log[k].e = "sleep"
                => /\ k > 1 /\ ~log[k - 1].ok /\ log[k - 1].i = log[k].i
                   /\ k < Len(log) /\ log[k + 1].e = "upload"
                   /\ log[k + 1].i = log[k].i + 1
          /\ log[Len(log)].e # "sleep"
          /\ result = "False"
          /\ (max_retries = 3 => SecsOf(Waits) = <<1, 2>>)

C1_Witness ==
    /\ sv_pc = "done"
    /\ max_retries = 3
    /\ result = "False"
    /\ Len(Attempts) = 3
    /\ SecsOf(Waits) = <<1, 2>>
    /\ \E k \in 1..Len(log) : log[k].e = "send" /\ ~log[k].ok
    /\ \E k \in 1..Len(log) : log[k].e = "parse" /\ ~log[k].ok

\* C2: send_video returns True exactly when some attempt's upload, parse and
\* send all succeeded; it returns at the first such attempt with no upload,
\* send or sleep after it; every other execution returns False.
C2_TrueIffAttemptSucceeded ==
    sv_pc = "done"
    => /\ (result = "True") <=> (\E i \in 0..MaxRetries : Succeeded(i))
       /\ result = "True"
          => /\ log[Len(log)].e = "send" /\ log[Len(log)].ok
             /\ \A k \in 1..(Len(log) - 1) : ~(log[k].e = "send" /\ log[k].ok)
       /\ result # "True" => result = "False"

\* C3: once an attempt (the entry check or an upload) has found video_path
\* missing, no later upload attempt and no sleep occurs, and the call
\* returns False.
C3_MissingFileNotRetried ==
    /\ \A j \in 1..Len(log) : \A k \in 1..Len(log) :
          (log[j].missing /\ j < k) => log[k].e \notin {"upload", "sleep"}
    /\ (sv_pc = "done" /\ \E j \in 1..Len(log) : log[j].missing)
       => result = "False"

\* C4: send_video never raises: whatever the file check, open, upload, parse
\* and send do and whatever max_retries is, the caller observes True or False.
C4_NeverRaises ==
    /\ result # "raised"
    /\ sv_pc = "done" => result \in {"True", "False"}

(***************************************************************************)
(* Properties of main() (checked under SpecMain)                           *)
(***************************************************************************)
Terminal == {"Succeeded", "Failed", "Cancelled"}
Aborted == m_pc \in {"exit1", "error"}

C6_RenderAfterBothSucceeded ==
    render # "Pending"
    => /\ narration = "Succeeded" /\ audio_dur >= MinDuration
       /\ images = "Succeeded" /\ image_paths >= 1

C6_Witness ==
    /\ render = "Running"
    /\ narration = "Succeeded"
    /\ images = "Succeeded"
    /\ image_paths = 1
    /\ image_urls = 2

CheckPassed(k) ==
    /\ checks[k].probe = "ok"
    /\ (IF checks[k].file = "audio" THEN audio_dur ELSE video_dur) >= MinDuration

\* C23: image acquisition and rendering start only after the audio passed
\* the 30 s duration check, and delivery only after the video passed it; a
\* failed check (a failed duration probe included) aborts the run: no later
\* step runs, and neither generation nor the check is tried again.
C23_ChecksGateTheRun ==
    /\ (images # "Pending" \/ render # "Pending")
       => (Len(checks) >= 1 /\ checks[1].file = "audio" /\ CheckPassed(1))
    /\ (delivered \/ m_pc \in {"deliver", "cleanup", "finished"})
       => (Len(checks) = 2 /\ checks[2].file = "video" /\ CheckPassed(2))
    /\ Len(checks) <= 2
    /\ \A k \in 1..Len(checks) :
          /\ checks[k].file = (IF k = 1 THEN "audio" ELSE "video")
          /\ ~CheckPassed(k)
             => /\ Aborted
                /\ k = Len(checks)
                /\ ~delivered
                /\ k = 1 => (images = "Pending" /\ render = "Pending")
                /\ narration = "Succeeded"
                /\ k = 2 => render = "Succeeded"

C23_Witness ==
    /\ Aborted
    /\ Len(checks) = 2
    /\ CheckPassed(1)
    /\ checks[2] = [file |-> "video", probe |-> "error"]
    /\ video_dur >= MinDuration
    /\ ~delivered

(***************************************************************************)
(* Properties of SimpleCache (C7-C9 under SpecCacheSeq, C10 under          *)
(* SpecCache)                                                              *)
(***************************************************************************)
GetDone(t) == th[t].op = "get" /\ th[t].pc = "idle"
SetDone(t) == th[t].op = "set" /\ th[t].pc = "idle"
AllIdle == \A t \in Threads : th[t].pc = "idle"
MapGet(k) == IF expect[k] = NotSet THEN PyNone ELSE expect[k]

\* C7 (as claimed): between calls, get(k) is the value of the most recent
\* set(k, v) since the last clear, and it is None exactly when k was never
\* set since the last clear.
C7_AbsentIffNeverSet ==
    \A k \in Keys :
       (AllIdle /\ expect[k] # Unknown)
       => /\ GetNow(k) = MapGet(k)
          /\ (GetNow(k) = PyNone) <=> (expect[k] = NotSet)

\* C7 (amended): between calls, get(k) is the value of the most recent
\* set(k, v) since the last clear, whatever was done to other keys, and it
\* is None exactly when k was never set since the last clear or the value
\* last set is None (JSON null).
C7_MapSemantics ==
    /\ \A k \in Keys :
          (AllIdle /\ expect[k] # Unknown)
          => /\ GetNow(k) = MapGet(k)
             /\ (GetNow(k) = PyNone) <=> (expect[k] \in {NotSet, PyNone})
    /\ \A t \in Threads :
          (GetDone(t) /\ expect[th[t].key] # Unknown) => th[t].ret = MapGet(th[t].key)

C7_Witness ==
    /\ GetDone("t1")
    /\ th["t1"].key = "k1"
    /\ th["t1"].ret = PyStr(<<>>)
    /\ expect["k1"] = PyStr(<<>>)
    /\ expect["k2"] = PyNone
    /\ GetNow("k2") = PyNone

\* C8: get fails open: whatever state the backing file is in (missing,
\* unreadable, truncated, not JSON, JSON that is not an object, an object
\* without "value"), get returns None and does not raise.
BadClasses == {"missing", "unreadable", "truncated", "notjson", "nonobject", "novalue"}

C8_GetFailsOpen ==
    \A t \in Threads :
       GetDone(t) => /\ th[t].ret # Raised
                     /\ th[t].cls \in BadClasses => th[t].ret = PyNone

C8_Witness ==
    /\ GetDone("t1")
    /\ th["t1"].cls = "nonobject"
    /\ th["t1"].ret = PyNone
    /\ files[_get_cache_path(th["t1"].key)].text = T_null

\* C9: a set call that fails does not raise and changes what get returns
\* for no key, the key being set included.
C9_FailedSetIsNoOp ==
    \A t \in Threads :
       (SetDone(t) /\ th[t].failed)
       => /\ th[t].ret # Raised
          /\ \A k \in Keys : GetNow(k) = th[t].before[k]

\* One write per set: every record written for k fits the file buffer.
OneWrite(k) == \A v \in started[k] : Len(Encode(Record(v)).text) <= BufSize

\* C10 (as claimed): under every interleaving no call raises, every get
\* returns None or a value some set call wrote for that key, and once all
\* sets have finished get returns the value of the last-finishing write.
C10_LastWriteWins ==
    /\ \A t \in Threads : th[t].ret # Raised
    /\ \A t \in Threads : GetDone(t) => th[t].ret \in {PyNone} \cup started[th[t].key]
    /\ AllIdle => \A k \in Keys :
                     lastFinished[k] # NotSet => GetNow(k) = lastFinished[k]

\* C10 (amended): under every interleaving no call raises; when every record
\* written for a key fits one buffered write, every get of that key returns
\* None or a value some set call wrote for it, and once all sets have
\* finished get returns None (overlapping sets left a corrupt record) or the
\* value of the last-finishing write.
C10_NoRaiseLastWriteOrAbsent ==
    /\ \A t \in Threads : th[t].ret # Raised
    /\ \A t \in Threads :
          (GetDone(t) /\ OneWrite(th[t].key))
          => th[t].ret \in {PyNone} \cup started[th[t].key]
    /\ AllIdle => \A k \in Keys :
                     (lastFinished[k] # NotSet /\ OneWrite(k))
                     => GetNow(k) \in {PyNone, lastFinished[k]}

C10_Witness ==
    /\ AllIdle
    /\ started["k1"] = {Num1, PyStr(<<"a">>)}
    /\ lastFinished["k1"] = Num1
    /\ GetNow("k1") = PyNone
    /\ \E t \in Threads : GetDone(t) /\ th[t].key = "k1"

(***************************************************************************)
(* Properties of the word-timing estimators (checked under SpecTiming)     *)
(***************************************************************************)
Returned == te_pc = "done" /\ te_ret.state = "returned"
DurationTier == Returned /\ te_ret.tier = "duration"
NWords == Len(word_timings)
RAbs(a) == <<Abs(a[1]), a[2]>>
Eps == Rat(1, 1000000)

\* C11: for a text with at least one word and a total duration > 0, the
\* last word of the duration-based transcript ends at the total duration
\* (within 1e-6): the word durations sum to the total.
C11_LastEndIsTotal ==
    (DurationTier /\ NWords >= 1 /\ RLt(Zero, te_duration))
    => RLe(RAbs(RSub(word_timings[NWords].end, te_duration)), Eps)

\* C12: in every transcript returned, by the signal-based or the
\* duration-based tier, start[i] <= end[i] for every word and
\* start[i] <= start[i+1] for every consecutive pair.
C12_StartsOrdered ==
    Returned
    => /\ \A i \in 1..NWords : RLe(word_timings[i].start, word_timings[i].end)
       /\ \A i \in 1..(NWords - 1) : RLe(word_timings[i].start, word_timings[i + 1].start)

\* C13: in every transcript returned by either tier for an audio duration
\* d >= 0, no word starts later than d plus a small epsilon.
C13_StartWithinAudio ==
    (Returned /\ RLe(Zero, te_duration))
    => \A i \in 1..NWords : RLe(word_timings[i].start, RAdd(te_duration, Eps))

\* C14: extract_word_timings_from_audio never raises: whichever step fails,
\* it returns a transcript.
C14_ExtractNeverRaises ==
    te_ret.fn = "extract" => te_ret.state # "raised"

\* The tokens of the text that hold a word: word i of the transcript comes
\* from SourceTokens[i].
SourceTokens == SelectSeq(te_text, LAMBDA tok : tok.last = "w" \/ tok.len > 1)
WordDuration(i) == RSub(word_timings[i].end, word_timings[i].start)
TimeScale == RDiv(te_duration, RDiv(Rat(NWords, 1), Rat(words_per_minute, 60)))

\* C24: in the duration-based estimator a word that ends a sentence in the
\* text ('.', '!', '?') lasts 0.3 s x scale longer than an equally long
\* word in mid-sentence, and a word followed by ',' lasts 0.2 s x scale
\* longer.
C24_PunctuationPauses ==
    (DurationTier /\ RLt(Zero, te_duration))
    => \A i, j \in 1..NWords :
          (word_timings[i].word.len = word_timings[j].word.len /\ SourceTokens[j].last = "w")
          => /\ SourceTokens[i].last \in {".", "!", "?"}
                => WordDuration(i) = RAdd(WordDuration(j), RMul(Rat(3, 10), TimeScale))
             /\ SourceTokens[i].last = ","
                => WordDuration(i) = RAdd(WordDuration(j), RMul(Rat(2, 10), TimeScale))

\* C15: the duration-based estimator called with a total duration <= 0
\* returns the empty transcript, whatever the text.
C15_EmptyForNonPositive ==
    (Returned /\ te_ret.fn \in {"simple", "estimate"} /\ RLe(te_duration, Zero))
    => word_timings = <<>>

(***************************************************************************)
(* Properties of the timings sidecar (checked under SpecSidecar)           *)
(***************************************************************************)
Sidecar == sc_fs[timing_file(sc_path)]
BadSidecar == {"missing", "unreadable", "notjson", "notlist", "lacking", "audio"}

\* C16: a load that follows save_word_timings(T, p) returns T, and the save
\* writes the sidecar only: the audio artifact p keeps its content.
C16_RoundTripKeepsAudio ==
    /\ (sc_pc = "loaded" /\ sc_saved.done)
       => (~sc_loaded.raised /\ sc_loaded.val = sc_saved.transcript)
    /\ sc_saved.done => sc_fs[sc_path] = AudioFile

\* C17: loading from a missing or corrupt sidecar (absent, unreadable, not
\* JSON, not a list, entries lacking word, start or end) returns the empty
\* transcript and never raises, and the renderer then takes its timings from
\* the duration-based estimator.
C17_LoadFailsOpen ==
    /\ ~sc_loaded.raised
    /\ (sc_pc = "loaded" /\ sc_class \in BadSidecar) => sc_loaded.val = <<>>
    /\ (sc_pc = "rendered" /\ sc_class \in BadSidecar)
       => /\ sc_render.source = "estimate"
          /\ sc_render.loaded = <<>>
          /\ sc_render.estimated = estimate_word_timings(RenderText, RenderDuration)

C17_Witness ==
    /\ sc_pc = "rendered"
    /\ sc_class = "lacking"
    /\ Len(Sidecar.text) > 40
    /\ Loads(Sidecar.text).ok
    /\ sc_loaded = Loaded(FALSE, <<>>)
    /\ sc_render.source = "estimate"
    /\ Len(sc_render.estimated) = 2

(***************************************************************************)
(* Properties of caption grouping (checked under SpecCaptions)             *)
(***************************************************************************)
NoPunctuation == \A k \in 1..Len(cs_timings) : cs_timings[k].word.last = "w"
GroupSizes == [k \in 1..Len(subtitle_clips) |-> Len(subtitle_clips[k].text)]
CeilDiv(n, m) == (n + m - 1) \div m

\* C18 (as claimed): the maximum group size is 25: n words without
\* punctuation give ceil(n/25) groups, all but the last of 25 words, and 30
\* words give 2 groups, of 25 and 5 words.
C18_GroupsOf25 ==
    (cs_pc = "done" /\ NoPunctuation)
    => /\ Len(subtitle_clips) = CeilDiv(Len(cs_timings), 25)
       /\ \A k \in 1..(Len(subtitle_clips) - 1) : GroupSizes[k] = 25
       /\ Len(cs_timings) = 30 => GroupSizes = <<25, 5>>

\* C18 (amended): the maximum group size is 8: n words without punctuation
\* give ceil(n/8) groups, all but the last of 8 words and the last of the
\* remaining words, and 30 words give 4 groups, of 8, 8, 8 and 6 words.
C18_GroupsOf8 ==
    (cs_pc = "done" /\ NoPunctuation)
    => /\ Len(subtitle_clips) = CeilDiv(Len(cs_timings), 8)
       /\ \A k \in 1..(Len(subtitle_clips) - 1) : GroupSizes[k] = 8
       /\ Len(subtitle_clips) >= 1
          => GroupSizes[Len(subtitle_clips)] = Len(cs_timings) - 8 * (Len(subtitle_clips) - 1)
       /\ Len(cs_timings) = 30 => GroupSizes = <<8, 8, 8, 6>>

C18_Witness ==
    /\ cs_pc = "done"
    /\ NoPunctuation
    /\ Len(cs_timings) = 30
    /\ GroupSizes = <<8, 8, 8, 6>>

RECURSIVE GroupWords(_)
GroupWords(k) ==
    IF k = 0 THEN <<>> ELSE GroupWords(k - 1) \o subtitle_clips[k].text
TranscriptWords == [k \in 1..Len(cs_timings) |-> cs_timings[k].word]

\* C27: the caption groups partition the transcript: every group holds at
\* least one word and at most 8, and the groups' words in order are exactly
\* the transcript's words; an empty transcript gives no group and no error.
C27_GroupsPartitionTranscript ==
    /\ cs_pc = "done"
       => /\ \A k \in 1..Len(subtitle_clips) :
                Len(subtitle_clips[k].text) \in 1..8
          /\ GroupWords(Len(subtitle_clips)) = TranscriptWords
    /\ Len(cs_timings) = 0
       => (cs_pc # "raised" /\ subtitle_clips = <<>>)

C27_Witness ==
    /\ cs_pc = "done"
    /\ Len(cs_timings) = 11
    /\ GroupSizes = <<3, 8>>
    /\ cs_timings[3].word.last = "."
    /\ GroupWords(2) = TranscriptWords

(***************************************************************************)
(* Properties of the image slideshow (checked under SpecSlots)             *)
(***************************************************************************)
NImages == Len(vc_loads)
AllLoad == \A k \in 1..NImages : vc_loads[k]
Min(a, b) == IF a <= b THEN a ELSE b
Max(a, b) == IF a >= b THEN a ELSE b
SlotEnd(clip) == RAdd(clip.start, clip.duration)
Shown == [k \in 1..Len(image_clips) |-> image_clips[k].image]
RECURSIVE LoadedIndexes(_)
LoadedIndexes(k) ==
    IF k = 0 THEN <<>>
    ELSE IF vc_loads[k] THEN Append(LoadedIndexes(k - 1), k) ELSE LoadedIndexes(k - 1)

\* C19 (as claimed): with N images that all load and a minimum visible
\* duration of 1.5 s, min(N, max(1, floor(duration / 1.5))) images are
\* shown, the first ones of the list in order, each for duration / kept; a
\* 10 s video with 10 images shows 6 images for 10/6 s each.
C19_CappedByMinDuration ==
    (vc_pc = "done" /\ AllLoad)
    => LET kept == Min(NImages, Max(1, (2 * vc_duration) \div 3)) IN
       /\ Len(image_clips) = kept
       /\ Shown = [k \in 1..kept |-> k]
       /\ \A k \in 1..Len(image_clips) : image_clips[k].duration = Rat(vc_duration, kept)
       /\ (vc_duration = 10 /\ NImages = 10)
          => (Len(image_clips) = 6 /\ image_clips[1].duration = Rat(10, 6))

\* C19 (amended): there is no minimum visible duration: every image of the
\* list that loads is shown, in input order (all N when all load), each for
\* duration / N; a 10 s video with 10 images shows 10 images for 1 s each.
C19_AllImagesEqualShare ==
    (vc_pc = "done" /\ \E k \in 1..NImages : vc_loads[k])
    => /\ Shown = LoadedIndexes(NImages)
       /\ AllLoad => Shown = [k \in 1..NImages |-> k]
       /\ \A k \in 1..Len(image_clips) :
             image_clips[k].duration = Rat(vc_duration, NImages)
       /\ (vc_duration = 10 /\ NImages = 10 /\ AllLoad)
          => (Len(image_clips) = 10 /\ \A k \in 1..10 : image_clips[k].duration = One)

C19_Witness ==
    /\ vc_pc = "done"
    /\ vc_duration = 10
    /\ NImages = 10
    /\ AllLoad
    /\ Len(image_clips) = 10
    /\ image_clips[10] = ImageClip(10, Rat(9, 1), One)

\* C20: for a non-empty image list the slots tile the video: the first
\* shown image starts at 0, each next one starts where the previous one
\* ends, and the last one ends at the video duration, also when some images
\* fail to load and are skipped.
C20_SlotsTile ==
    (vc_pc = "done" /\ NImages >= 1)
    => /\ image_clips[1].start = Zero
       /\ \A k \in 1..(Len(image_clips) - 1) :
             image_clips[k + 1].start = SlotEnd(image_clips[k])
       /\ SlotEnd(image_clips[Len(image_clips)]) = Rat(vc_duration, 1)

(***************************************************************************)
(* Properties of download_images (checked under SpecDownload)              *)
(***************************************************************************)
Fetched(w) == dl_futures[w].pc = "done" /\ dl_futures[w].outcome \in {"exists", "written"}
Yielded == {dl_yielded[k] : k \in 1..Len(dl_yielded)}
Occurrences(f) == Cardinality({k \in 1..Len(output_paths) : output_paths[k] = f})

\* C21: whatever each fetch ends with (skipped, request error, bad status,
\* write error, success), download_images does not raise and the list it
\* builds holds exactly the paths of the successful fetches gathered so
\* far, one per successful URL: a failed fetch removes or prevents no other
\* URL's result, and at the return every successful URL has its path in
\* the list.
C21_ReturnsTheSuccesses ==
    /\ \A w \in DOMAIN dl_futures :
          dl_futures[w].pc = "done"
          => (dl_futures[w].result # "None" <=> Fetched(w))
    /\ \A f \in FileNames :
          Occurrences(f) = Cardinality({w \in Yielded : Fetched(w) /\ dl_urls[w].file = f})
    /\ \A k \in 1..Len(output_paths) : output_paths[k] \in FileNames
    /\ dl_pc = "returned" => Yielded = DOMAIN dl_urls

C21_Witness ==
    /\ dl_pc = "returned"
    /\ Len(dl_urls) = 2
    /\ dl_futures[1].outcome = "write_error"
    /\ dl_futures[2].outcome = "written"
    /\ dl_yielded = <<2, 1>>
    /\ output_paths = <<dl_urls[2].file>>

\* C22: under every interleaving of the workers the returned paths are in
\* the order of their URLs in the input list.
C22_InputOrderKept ==
    \A i, j \in 1..Len(dl_yielded) :
       (i < j /\ Fetched(dl_yielded[i]) /\ Fetched(dl_yielded[j]))
       => dl_yielded[i] < dl_yielded[j]

\* C28: under every interleaving of the workers of image_handler.py, two
\* URLs with the same file name included, every returned path is a file
\* that exists and was completely written when download_images returns.
C28_ReturnedFilesComplete ==
    (dl_pc = "returned" /\ dl_impl = "image_handler")
    => \A k \in 1..Len(output_paths) : dl_fs[output_paths[k]] = "complete"

(***************************************************************************)
(* Properties of the cached lookups (checked under SpecInfo)               *)
(***************************************************************************)
NoClearBetween(i, j) == \A k \in (i + 1)..(j - 1) : ic_log[k].fn # "clear"
Generated(i) == ic_log[i].source = "service" /\ ic_log[i].set # "none"
NextSameCall(i, j) ==
    /\ i < j
    /\ ic_log[i].fn = ic_log[j].fn
    /\ \A k \in (i + 1)..(j - 1) : ic_log[k].fn # ic_log[i].fn

\* The call failed or found nothing.
FoundNothing(i) ==
    /\ ic_log[i].fn # "clear"
    /\ (ic_log[i].ret \in {ErrorMsg, NoImagesFound, RaisedValueError} \/ ~Truthy(ic_log[i].ret))

\* C25: once generate_animal_info has returned a generated description d
\* (any string, the empty one included), every later call with no cache
\* clear in between returns d and issues no request.
C25_GeneratedOnce ==
    \A i, j \in 1..Len(ic_log) :
       (i < j /\ ic_log[i].fn = "info" /\ ic_log[j].fn = "info" /\ Generated(i)
          /\ NoClearBetween(i, j))
       => (ic_log[j].ret = ic_log[i].ret /\ ic_log[j].source = "cache")

\* C26 (as claimed): the cache never holds an error message or an empty URL
\* list, so a lookup that failed or found nothing is not served from the
\* cache on the next call.
C26_OnlyUsableResults ==
    /\ \A key \in InfoKeys :
          ic_cache[key] \notin {ErrorMsg, NoImagesFound, PyList(<<>>)}
    /\ \A i, j \in 1..Len(ic_log) :
          (NextSameCall(i, j) /\ FoundNothing(i))
          => ic_log[j].source # "cache"

\* C26 (amended): the cache never holds an error message; an empty URL
\* list can be stored, by get_animal_photo_urls_unsplash only, and an empty
\* description by generate_animal_info, but an empty stored value is never
\* served, so a lookup that failed or found nothing is not served from the
\* cache on the next call.
C26_NoErrorStoredEmptyNeverServed ==
    /\ \A key \in InfoKeys :
          /\ ic_cache[key] \notin {ErrorMsg, NoImagesFound, RaisedValueError}
          /\ ic_cache[key] = PyList(<<>>) => key = "image_urls_unsplash"
          /\ ic_cache[key] = PyStr(<<>>) => key = "animal_info"
    /\ \A i \in 1..Len(ic_log) :
          ic_log[i].source = "cache"
          => (Truthy(ic_log[i].ret) /\ ic_log[i].ret \notin {ErrorMsg, NoImagesFound})
    /\ \A i, j \in 1..Len(ic_log) :
          (NextSameCall(i, j) /\ FoundNothing(i))
          => ic_log[j].source # "cache"

C26_Witness ==
    /\ Len(ic_log) = 2
    /\ ic_log[1] = CallRecord("unsplash", PyList(<<>>), "service", "stored")
    /\ ic_log[2] = CallRecord("unsplash", PyList(<<Url_u>>), "service", "stored")
    /\ ic_cache["image_urls_unsplash"] = PyList(<<Url_u>>)

(***************************************************************************)
(* Properties of the runs of generate_audio (checked under SpecRuns)       *)
(***************************************************************************)
\* C29: whenever the renderer loads word timings from the sidecar, the
\* sidecar was written by the generate_audio run that produced the current
\* audio file of the subject: a run whose extraction returns nothing or
\* raises leaves no earlier sidecar to be used with the new audio.
C29_SidecarOfCurrentAudio ==
    ar_render.source = "sidecar" => ar_render.sidecar = ar_render.audio

(***************************************************************************)
(* Properties of get_animal_name (checked under SpecNames)                 *)
(***************************************************************************)
Used(name) == \E p \in 1..Len(gn_previous) : gn_previous[p] = name

\* C30: get_animal_name, in animal_data.py and in main.py, ends by
\* returning a name that is not in the previous-names file or by an error,
\* for every names list and previous-names file: it returns no used name
\* and its recursion ends.
C30_NeverAUsedName ==
    /\ gn_ret.state = "returned" => ~Used(gn_ret.value)
    /\ gn_depth <= RecursionLimit

====
